---- MODULE Spec2Model ----
(***************************************************************************)
(* Model of the Tab History Tree Generator background service worker      *)
(* (src/background.js, class TabHistoryTracker).                          *)
(*                                                                         *)
(* Representation choices                                                  *)
(*  - A JS Map is a function whose DOMAIN is the set of keys present.     *)
(*  - A URL is a pair <<scheme, rest>>; the missing URL is <<>>.           *)
(*  - A history entry keeps url and type; title, timestamp, historyLength, *)
(*    canGoBack, canGoForward and state are written once by                *)
(*    createHistoryEntry and never read by the tracker, so they are left   *)
(*    out of the entry record.                                             *)
(*  - Array positions are 0-based as in the source: sessionHistory[i] of   *)
(*    the source is sessionHistory[i + 1] here, currentIndex is 0-based.   *)
(*  - A tree is the sequence of its nodes in creation order.  Node k is    *)
(*    [entry, parent, level, isCurrent]; parent is the position of the     *)
(*    node whose children array holds it (0 for the root).  Children are   *)
(*    pushed in creation order, so the children array of node k is the     *)
(*    nodes with parent = k in increasing position.                        *)
(***************************************************************************)
EXTENDS Integers, Sequences, FiniteSets, TLC

\* Bounds of the model.
MaxEntries == 4
MaxTotalEntries == 3
MaxNow == 1
MaxHistoryLength == 2
MaxPending == 2

TabIds == {1, 2}
ValidUrls == {<<"http:", "A">>, <<"https:", "B">>, <<"http:", "C">>}
OtherUrls == {<<"chrome:", "X">>}
NoUrl == <<>>
Urls == ValidUrls \cup OtherUrls \cup {NoUrl}
EventTypes == {"navigation", "activation"}
Statuses == {"loading", "complete"}
Actions == {"getAllTabTrees", "clearHistory", "clearClosedTabs", "getStatus",
            "refreshTabHistory", "debugInfo", "bogus"}

VARIABLES
    tabHistories,        \* Map tabId -> record of an active tab
    closedTabHistories,  \* Map tabId -> record of a closed tab
    tabCreationTimes,    \* Map tabId -> creation timestamp
    storage,             \* chrome.storage.local: the historyTrackerData blob
    pending,             \* handlers awaiting the navigation-capability probe
    tabs,                \* the browser's tabs: "unborn", "open" or "gone"
    now,                 \* Date.now()
    written,             \* what became of the write the last step issued
    response,            \* the sendResponse calls of the last step, in order
    last                 \* the operation handled last

vars == <<tabHistories, closedTabHistories, tabCreationTimes, storage, pending,
          tabs, now, written, response, last>>

EmptyMap == <<>>
NoData == <<>>

Has(map, key) == key \in DOMAIN map

MapSet(map, key, value) ==
    [k \in (DOMAIN map) \cup {key} |-> IF k = key THEN value ELSE map[k]]

MapDelete(map, key) == [k \in (DOMAIN map) \ {key} |-> map[k]]

\* ------------------------------------------------------------------------
\* Pure helpers of the tracker
\* ------------------------------------------------------------------------

isValidUrlAnyScheme(url) == url # NoUrl

isValidUrl(url) ==
    /\ url # NoUrl
    /\ (url[1] = "http:" \/ url[1] = "https:")

createHistoryEntry(url, type) == [url |-> url, type |-> type]

createTreeNodeAtRootLevel(entry, level, isCurrent) ==
    [entry |-> entry, parent |-> 0, level |-> 0, isCurrent |-> isCurrent]

createTreeNode(entry, level, isCurrent) ==
    [entry |-> entry, parent |-> 0, level |-> level, isCurrent |-> isCurrent]

\* Mutant: only the last node of the branch is compared.
findIndexLastOnly(nodes, currentBranch, url) ==
    IF nodes[currentBranch[Len(currentBranch)]].entry.url = url
    THEN Len(currentBranch) - 1
    ELSE -1

\* currentBranch.findIndex(node => node.entry.url === url): 0-based position
\* of the first branch node with that URL, -1 when there is none.
findIndex(nodes, currentBranch, url) ==
    LET hits == {p \in 1..Len(currentBranch) : nodes[currentBranch[p]].entry.url = url}
    IN IF hits = {} THEN -1
       ELSE (CHOOSE p \in hits : \A q \in hits : p <= q) - 1

\* Mutant: currentBranch.slice(0, existingIndex) drops the revisited node
\* from the branch.
RECURSIVE buildLoopSliceShort(_, _, _, _, _)
buildLoopSliceShort(sessionHistory, currentIndex, i, nodes, currentBranch) ==
    IF i >= Len(sessionHistory) THEN nodes
    ELSE
      LET entry == sessionHistory[i + 1]
          isCurrent == (i = currentIndex)
          existingIndex == findIndex(nodes, currentBranch, entry.url)
      IN IF existingIndex > 0
         THEN LET cut == SubSeq(currentBranch, 1, existingIndex)
                  reused == currentBranch[existingIndex + 1]
                  flagged ==
                    [k \in DOMAIN nodes |->
                       IF \E idx \in 1..Len(cut) : cut[idx] = k
                       THEN [nodes[k] EXCEPT !.isCurrent = FALSE]
                       ELSE IF k = reused
                            THEN [nodes[k] EXCEPT !.isCurrent = isCurrent]
                            ELSE nodes[k]]
              IN buildLoopSliceShort(sessionHistory, currentIndex, i + 1, flagged, cut)
         ELSE IF existingIndex = 0
         THEN buildLoopSliceShort(
                  sessionHistory, currentIndex, i + 1,
                  [nodes EXCEPT ![currentBranch[1]].isCurrent = isCurrent],
                  SubSeq(currentBranch, 1, 1))
         ELSE LET parentNode == currentBranch[Len(currentBranch)]
                  newNode == [createTreeNode(entry, Len(currentBranch), isCurrent)
                                EXCEPT !.parent = parentNode]
                  grown == Append(nodes, newNode)
              IN buildLoopSliceShort(sessionHistory, currentIndex, i + 1, grown,
                                     Append(currentBranch, Len(grown)))

\* The loop of buildTreeFromSessionHistory from position i on; nodes is the
\* tree built so far and currentBranch the positions of the branch nodes.
RECURSIVE buildLoop(_, _, _, _, _)
buildLoop(sessionHistory, currentIndex, i, nodes, currentBranch) ==
    IF i >= Len(sessionHistory) THEN nodes
    ELSE
      LET entry == sessionHistory[i + 1]
          isCurrent == (i = currentIndex)
          existingIndex == findIndex(nodes, currentBranch, entry.url)
      IN IF existingIndex # -1
         THEN LET cut == SubSeq(currentBranch, 1, existingIndex + 1)
                  flagged ==
                    [k \in DOMAIN nodes |->
                       IF \E idx \in 0..existingIndex : cut[idx + 1] = k
                       THEN [nodes[k] EXCEPT !.isCurrent =
                               (cut[existingIndex + 1] = k /\ isCurrent)]
                       ELSE nodes[k]]
              IN buildLoop(sessionHistory, currentIndex, i + 1, flagged, cut)
         ELSE LET parentNode == currentBranch[Len(currentBranch)]
                  newNode == [createTreeNode(entry, Len(currentBranch), isCurrent)
                                EXCEPT !.parent = parentNode]
                  grown == Append(nodes, newNode)
              IN buildLoop(sessionHistory, currentIndex, i + 1, grown,
                           Append(currentBranch, Len(grown)))

\* Mutant: the root is made of the last entry of the log.
buildTreeRootFromLast(sessionHistory, currentIndex) ==
    LET root == createTreeNode(sessionHistory[Len(sessionHistory)], 0, currentIndex = 0)
    IN buildLoop(sessionHistory, currentIndex, 1, <<root>>, <<1>>)

\* Mutant: the root is created current whatever currentIndex is.
buildTreeRootCurrent(sessionHistory, currentIndex) ==
    LET root == createTreeNode(sessionHistory[1], 0, TRUE)
    IN buildLoop(sessionHistory, currentIndex, 1, <<root>>, <<1>>)

\* The tree buildTreeFromSessionHistory makes of a non-empty log.
buildTree(sessionHistory, currentIndex) ==
    LET root == createTreeNode(sessionHistory[1], 0, currentIndex = 0)
    IN buildLoop(sessionHistory, currentIndex, 1, <<root>>, <<1>>)

\* Mutant: the builder goes on from the stored tree instead of a fresh root.
buildTreeFromSessionHistoryKeepsNodes(histories, tabId) ==
    IF ~Has(histories, tabId) \/ Len(histories[tabId].sessionHistory) = 0
    THEN histories
    ELSE LET tabHistory == histories[tabId]
             root == createTreeNode(tabHistory.sessionHistory[1], 0,
                                    tabHistory.currentIndex = 0)
             start == IF Len(tabHistory.tree) = 0 THEN <<root>> ELSE tabHistory.tree
         IN [histories EXCEPT ![tabId].tree =
               buildLoop(tabHistory.sessionHistory, tabHistory.currentIndex, 1,
                         start, <<1>>)]

\* Mutant: the builder also stamps lastUpdated.
buildTreeFromSessionHistoryStamps(histories, tabId) ==
    IF ~Has(histories, tabId) \/ Len(histories[tabId].sessionHistory) = 0
    THEN histories
    ELSE [histories EXCEPT
            ![tabId].tree = buildTree(histories[tabId].sessionHistory,
                                      histories[tabId].currentIndex),
            ![tabId].lastUpdated = now]

\* Mutant: an empty log resets the stored tree.
buildTreeFromSessionHistoryClearsEmpty(histories, tabId) ==
    IF ~Has(histories, tabId) THEN histories
    ELSE IF Len(histories[tabId].sessionHistory) = 0
    THEN [histories EXCEPT ![tabId].tree = <<>>]
    ELSE [histories EXCEPT ![tabId].tree =
            buildTree(histories[tabId].sessionHistory, histories[tabId].currentIndex)]

buildTreeFromSessionHistory(histories, tabId) ==
    IF ~Has(histories, tabId) \/ Len(histories[tabId].sessionHistory) = 0
    THEN histories
    ELSE [histories EXCEPT ![tabId].tree =
            buildTree(histories[tabId].sessionHistory, histories[tabId].currentIndex)]

\* ------------------------------------------------------------------------
\* Session tracker: classification and log mutation
\* ------------------------------------------------------------------------

detectBackNavigationAnyProbe(histories, tabId, newUrl, historyInfo) ==
    IF ~Has(histories, tabId) \/ Len(histories[tabId].sessionHistory) < 2
    THEN FALSE
    ELSE LET tabHistory == histories[tabId]
             currentIndex == tabHistory.currentIndex
         IN IF currentIndex > 0
            THEN tabHistory.sessionHistory[currentIndex].url = newUrl
            ELSE FALSE

detectBackNavigation(histories, tabId, newUrl, historyInfo) ==
    IF ~Has(histories, tabId) \/ Len(histories[tabId].sessionHistory) < 2
    THEN FALSE
    ELSE LET tabHistory == histories[tabId]
             currentIndex == tabHistory.currentIndex
         IN IF currentIndex > 0
            THEN tabHistory.sessionHistory[currentIndex].url = newUrl
                 /\ historyInfo.canGoBack
            ELSE FALSE

detectForwardNavigation(histories, tabId, newUrl, historyInfo) ==
    IF ~Has(histories, tabId)
       \/ histories[tabId].currentIndex >= Len(histories[tabId].sessionHistory) - 1
    THEN FALSE
    ELSE LET tabHistory == histories[tabId]
             currentIndex == tabHistory.currentIndex
         IN tabHistory.sessionHistory[currentIndex + 2].url = newUrl
            /\ historyInfo.canGoForward

Max(a, b) == IF a >= b THEN a ELSE b
Min(a, b) == IF a <= b THEN a ELSE b

handleBackNavigationToStart(histories, tabId, url) ==
    IF ~Has(histories, tabId) THEN histories
    ELSE [histories EXCEPT ![tabId].currentIndex = 0]

handleBackNavigation(histories, tabId, url) ==
    IF ~Has(histories, tabId) THEN histories
    ELSE [histories EXCEPT ![tabId].currentIndex = Max(0, @ - 1)]

\* Mutant: forward jumps to the newest entry.
handleForwardNavigationToEnd(histories, tabId, url) ==
    IF ~Has(histories, tabId) THEN histories
    ELSE [histories EXCEPT ![tabId].currentIndex =
            Len(histories[tabId].sessionHistory) - 1]

handleForwardNavigation(histories, tabId, url) ==
    IF ~Has(histories, tabId) THEN histories
    ELSE [histories EXCEPT ![tabId].currentIndex =
            Min(Len(histories[tabId].sessionHistory) - 1, @ + 1)]

handleNewNavigationDropsCurrent(histories, tabId, url, type, historyInfo) ==
    IF ~Has(histories, tabId) THEN histories
    ELSE LET tabHistory == histories[tabId]
             currentEntry == tabHistory.sessionHistory[tabHistory.currentIndex + 1]
         IN IF currentEntry.url = url THEN histories
            ELSE LET kept == SubSeq(tabHistory.sessionHistory, 1,
                                    tabHistory.currentIndex)
                 IN [histories EXCEPT
                       ![tabId].sessionHistory =
                          Append(kept, createHistoryEntry(url, type)),
                       ![tabId].currentIndex = Len(kept)]

newTabHistoryNavigationEntry(url, time) ==
    LET initialEntry == createHistoryEntry(url, "navigation")
    IN [sessionHistory |-> <<initialEntry>>,
        currentIndex |-> 0,
        tree |-> <<createTreeNode(initialEntry, 0, TRUE)>>,
        lastUpdated |-> time,
        isClosed |-> FALSE]

\* Mutant: currentIndex is set to the length, one past the new entry.
handleNewNavigationIndexPastEnd(histories, tabId, url, type, historyInfo) ==
    IF ~Has(histories, tabId) THEN histories
    ELSE
      LET tabHistory == histories[tabId]
          currentIndex == tabHistory.currentIndex
      IN IF tabHistory.sessionHistory[currentIndex + 1].url = url
         THEN histories
         ELSE
           LET kept == IF currentIndex < Len(tabHistory.sessionHistory) - 1
                       THEN SubSeq(tabHistory.sessionHistory, 1, currentIndex + 1)
                       ELSE tabHistory.sessionHistory
               pushed == Append(kept, createHistoryEntry(url, type))
           IN [histories EXCEPT ![tabId].sessionHistory = pushed,
                                ![tabId].currentIndex = Len(pushed)]

\* Mutant: the same-URL test looks at the first entry, not the current one.
handleNewNavigationChecksFirstEntry(histories, tabId, url, type, historyInfo) ==
    IF ~Has(histories, tabId) THEN histories
    ELSE
      LET tabHistory == histories[tabId]
          currentIndex == tabHistory.currentIndex
      IN IF tabHistory.sessionHistory[1].url = url
         THEN histories
         ELSE
           LET kept == IF currentIndex < Len(tabHistory.sessionHistory) - 1
                       THEN SubSeq(tabHistory.sessionHistory, 1, currentIndex + 1)
                       ELSE tabHistory.sessionHistory
               pushed == Append(kept, createHistoryEntry(url, type))
           IN [histories EXCEPT ![tabId].sessionHistory = pushed,
                                ![tabId].currentIndex = Len(pushed) - 1]

\* Mutant: the same-URL test is missing, a refresh appends an entry.
handleNewNavigationNoRefreshCheck(histories, tabId, url, type, historyInfo) ==
    IF ~Has(histories, tabId) THEN histories
    ELSE
      LET tabHistory == histories[tabId]
          currentIndex == tabHistory.currentIndex
          kept == IF currentIndex < Len(tabHistory.sessionHistory) - 1
                  THEN SubSeq(tabHistory.sessionHistory, 1, currentIndex + 1)
                  ELSE tabHistory.sessionHistory
          pushed == Append(kept, createHistoryEntry(url, type))
      IN [histories EXCEPT ![tabId].sessionHistory = pushed,
                           ![tabId].currentIndex = Len(pushed) - 1]

\* Mutant: the forward history is kept, the new entry is pushed after it.
handleNewNavigationNoTruncate(histories, tabId, url, type, historyInfo) ==
    IF ~Has(histories, tabId) THEN histories
    ELSE
      LET tabHistory == histories[tabId]
          currentIndex == tabHistory.currentIndex
      IN IF tabHistory.sessionHistory[currentIndex + 1].url = url
         THEN histories
         ELSE
           LET pushed == Append(tabHistory.sessionHistory,
                                createHistoryEntry(url, type))
           IN [histories EXCEPT ![tabId].sessionHistory = pushed,
                                ![tabId].currentIndex = Len(pushed) - 1]

handleNewNavigation(histories, tabId, url, type, historyInfo) ==
    IF ~Has(histories, tabId) THEN histories
    ELSE
      LET tabHistory == histories[tabId]
          currentIndex == tabHistory.currentIndex
          inRange == currentIndex >= 0 /\ currentIndex < Len(tabHistory.sessionHistory)
      IN IF inRange /\ tabHistory.sessionHistory[currentIndex + 1].url = url
         THEN histories
         ELSE
           LET kept == IF currentIndex < Len(tabHistory.sessionHistory) - 1
                       THEN SubSeq(tabHistory.sessionHistory, 1, currentIndex + 1)
                       ELSE tabHistory.sessionHistory
               pushed == Append(kept, createHistoryEntry(url, type))
           IN [histories EXCEPT ![tabId].sessionHistory = pushed,
                                ![tabId].currentIndex = Len(pushed) - 1]

\* The record updateTabHistory and initializeTabHistory create for a tab
\* without one.
newTabHistory(url, time) ==
    LET initialEntry == createHistoryEntry(url, "initial")
    IN [sessionHistory |-> <<initialEntry>>,
        currentIndex |-> 0,
        tree |-> <<createTreeNode(initialEntry, 0, TRUE)>>,
        lastUpdated |-> time,
        isClosed |-> FALSE]

\* updateTabHistory up to the lastUpdated assignment: record creation,
\* classification, log mutation and time stamp.
\* Mutant: the forward test decides before the back test.
classifyAndApplyForwardFirst(histories, tabId, url, type, historyInfo, time) ==
    LET created == IF Has(histories, tabId) THEN histories
                   ELSE MapSet(histories, tabId, newTabHistory(url, time))
        isBackNavigation == detectBackNavigation(created, tabId, url, historyInfo)
        isForwardNavigation == detectForwardNavigation(created, tabId, url, historyInfo)
        moved == IF isForwardNavigation THEN handleForwardNavigation(created, tabId, url)
                 ELSE IF isBackNavigation
                      THEN handleBackNavigation(created, tabId, url)
                      ELSE handleNewNavigation(created, tabId, url, type, historyInfo)
    IN [moved EXCEPT ![tabId].lastUpdated = time]

classifyAndApplyStampsAll(histories, tabId, url, type, historyInfo, time) ==
    LET created == IF Has(histories, tabId) THEN histories
                   ELSE MapSet(histories, tabId, newTabHistory(url, time))
        isBackNavigation == detectBackNavigation(created, tabId, url, historyInfo)
        isForwardNavigation == detectForwardNavigation(created, tabId, url, historyInfo)
        moved == IF isBackNavigation THEN handleBackNavigation(created, tabId, url)
                 ELSE IF isForwardNavigation
                      THEN handleForwardNavigation(created, tabId, url)
                      ELSE handleNewNavigation(created, tabId, url, type, historyInfo)
    IN [t \in DOMAIN moved |-> [moved[t] EXCEPT !.lastUpdated = time]]

classifyAndApply(histories, tabId, url, type, historyInfo, time) ==
    LET created == IF Has(histories, tabId) THEN histories
                   ELSE MapSet(histories, tabId, newTabHistory(url, time))
        isBackNavigation == detectBackNavigation(created, tabId, url, historyInfo)
        isForwardNavigation == detectForwardNavigation(created, tabId, url, historyInfo)
        moved == IF isBackNavigation THEN handleBackNavigation(created, tabId, url)
                 ELSE IF isForwardNavigation
                      THEN handleForwardNavigation(created, tabId, url)
                      ELSE handleNewNavigation(created, tabId, url, type, historyInfo)
    IN [moved EXCEPT ![tabId].lastUpdated = time]

\* Mutant: the tree is not rebuilt after the log changed.
updateTabHistoryNoRebuild(histories, tabId, url, type, historyInfo, time) ==
    classifyAndApply(histories, tabId, url, type, historyInfo, time)

\* updateTabHistory up to its saveToStorage call: the new tabHistories.
updateTabHistory(histories, tabId, url, type, historyInfo, time) ==
    buildTreeFromSessionHistory(
        classifyAndApply(histories, tabId, url, type, historyInfo, time), tabId)

\* ------------------------------------------------------------------------
\* Navigation-capability probe
\* ------------------------------------------------------------------------

\* The object the injected page function getTabHistoryInfo returns for a page
\* whose history.length is historyLength.
pageHistoryInfo(historyLength) ==
    [historyLength |-> historyLength,
     canGoBack |-> historyLength > 1,
     canGoForward |-> historyLength > 1]

DefaultHistoryInfoCanGoBoth ==
    [historyLength |-> 1, canGoBack |-> TRUE, canGoForward |-> TRUE]

\* The object TabHistoryTracker.getTabHistoryInfo returns when the probe fails.
DefaultHistoryInfo ==
    [historyLength |-> 1, canGoBack |-> FALSE, canGoForward |-> FALSE]

\* What TabHistoryTracker.getTabHistoryInfo can resolve to.
ProbeResults ==
    {pageHistoryInfo(n) : n \in 1..MaxHistoryLength} \cup {DefaultHistoryInfo}

\* Every historyInfo argument updateTabHistory can be called with.
AllHistoryInfo ==
    [historyLength : 1..MaxHistoryLength, canGoBack : BOOLEAN, canGoForward : BOOLEAN]

\* ------------------------------------------------------------------------
\* Persistence
\* ------------------------------------------------------------------------

\* Array.from(map.entries()) over the keys in todo, here in key order.
RECURSIVE entriesOf(_, _)
entriesOf(map, todo) ==
    IF todo = {} THEN <<>>
    ELSE LET k == CHOOSE x \in todo : \A y \in todo : x <= y
         IN <<<<k, map[k]>>>> \o entriesOf(map, todo \ {k})

MapEntries(map) == entriesOf(map, DOMAIN map)

MapFromEntriesFirstOnly(entries) ==
    [k \in {entries[i][1] : i \in DOMAIN entries \cap {1}} |-> entries[1][2]]

\* new Map(entries): a later pair with the same key replaces an earlier one.
MapFromEntries(entries) ==
    [k \in {entries[i][1] : i \in DOMAIN entries} |->
       LET at == CHOOSE i \in DOMAIN entries :
                    /\ entries[i][1] = k
                    /\ \A j \in DOMAIN entries : entries[j][1] = k => j <= i
       IN entries[at][2]]

\* The blob saveToStorage writes (lastSaved left out).
Snapshot(histories, closedHistories, creationTimes) ==
    [tabHistories |-> MapEntries(histories),
     closedTabHistories |-> MapEntries(closedHistories),
     tabCreationTimes |-> MapEntries(creationTimes)]

RECURSIVE rebuildAll(_, _)
rebuildAll(histories, todo) ==
    IF todo = {} THEN histories
    ELSE LET tabId == CHOOSE t \in todo : TRUE
         IN rebuildAll(buildTreeFromSessionHistory(histories, tabId), todo \ {tabId})

\* tabHistories after loadStoredData has read blob data.
loadedTabHistories(data) ==
    LET loaded == MapFromEntries(data.tabHistories)
    IN rebuildAll(loaded, DOMAIN loaded)

\* ------------------------------------------------------------------------
\* Bookkeeping of the model
\* ------------------------------------------------------------------------

RECURSIVE SumEntries(_, _)
SumEntries(map, keys) ==
    IF keys = {} THEN 0
    ELSE LET k == CHOOSE x \in keys : TRUE
         IN Len(map[k].sessionHistory) + SumEntries(map, keys \ {k})

TotalEntries(histories, closedHistories) ==
    SumEntries(histories, DOMAIN histories)
    + SumEntries(closedHistories, DOMAIN closedHistories)

\* Which branch updateTabHistory takes for this update.
navigationKind(histories, tabId, url, historyInfo) ==
    IF ~Has(histories, tabId) THEN "initial"
    ELSE IF detectBackNavigation(histories, tabId, url, historyInfo) THEN "back"
    ELSE IF detectForwardNavigation(histories, tabId, url, historyInfo) THEN "forward"
    ELSE IF handleNewNavigation(histories, tabId, url, "navigation", historyInfo) = histories
         THEN "refresh"
    ELSE IF histories[tabId].currentIndex < Len(histories[tabId].sessionHistory) - 1
         THEN "truncate"
    ELSE "append"

Did(op, tabId, kind) == [op |-> op, tab |-> tabId, kind |-> kind]

\* ------------------------------------------------------------------------
\* Handlers
\* ------------------------------------------------------------------------

\* saveToStorage called with the maps as given; ok tells whether
\* chrome.storage.local.set resolves or rejects.  A rejected write is caught
\* and logged.
saveToStorage(histories, closedHistories, creationTimes, ok) ==
    /\ storage' = IF ok THEN Snapshot(histories, closedHistories, creationTimes)
                  ELSE storage
    /\ written' = IF ok THEN "saved" ELSE "failed"

\* A step that calls no saveToStorage.
NoWrite == storage' = storage /\ written' = "none"

\* A step that calls no sendResponse.
NoReply == response' = <<>>

ApplyUpdateRollsBack(tabId, url, type, historyInfo, ok) ==
    LET updated == updateTabHistory(tabHistories, tabId, url, type, historyInfo, now)
    IN /\ tabHistories' = IF ok THEN updated ELSE tabHistories
       /\ saveToStorage(updated, closedTabHistories, tabCreationTimes, ok)
       /\ last' = Did("update", tabId,
                      navigationKind(tabHistories, tabId, url, historyInfo))
       /\ NoReply
       /\ UNCHANGED <<closedTabHistories, tabCreationTimes>>

\* updateTabHistory.
ApplyUpdate(tabId, url, type, historyInfo, ok) ==
    LET updated == updateTabHistory(tabHistories, tabId, url, type, historyInfo, now)
    IN /\ tabHistories' = updated
       /\ saveToStorage(updated, closedTabHistories, tabCreationTimes, ok)
       /\ last' = Did("update", tabId,
                      navigationKind(tabHistories, tabId, url, historyInfo))
       /\ NoReply
       /\ UNCHANGED <<closedTabHistories, tabCreationTimes>>

Ignore(op, tabId) ==
    /\ last' = Did(op, tabId, "ignored")
    /\ NoWrite
    /\ NoReply
    /\ UNCHANGED <<tabHistories, closedTabHistories, tabCreationTimes>>

handleTabCreated(tabId) ==
    /\ tabs[tabId] = "unborn"
    /\ tabs' = [tabs EXCEPT ![tabId] = "open"]
    /\ tabCreationTimes' = MapSet(tabCreationTimes, tabId, now)
    /\ last' = Did("created", tabId, "none")
    /\ NoWrite
    /\ NoReply
    /\ UNCHANGED <<tabHistories, closedTabHistories, pending, now>>

\* The condition under which handleTabUpdate goes on to the probe.
tabUpdateAccepted(status, url) == status = "complete" /\ isValidUrl(url)

\* The condition under which handleTabActivation goes on to the probe.
tabActivationAccepted(url) == isValidUrl(url)

\* handleTabUpdate with its probe answered at once.
handleTabUpdate(tabId, status, url, historyInfo, ok) ==
    /\ tabs[tabId] = "open"
    /\ IF tabUpdateAccepted(status, url)
       THEN ApplyUpdate(tabId, url, "navigation", historyInfo, ok)
       ELSE Ignore("update", tabId)
    /\ UNCHANGED <<pending, tabs, now>>

\* handleTabActivation with chrome.tabs.get and the probe answered at once.
handleTabActivation(tabId, url, historyInfo, ok) ==
    /\ tabs[tabId] = "open"
    /\ IF tabActivationAccepted(url)
       THEN ApplyUpdate(tabId, url, "activation", historyInfo, ok)
       ELSE Ignore("update", tabId)
    /\ UNCHANGED <<pending, tabs, now>>

closedRecordFirstEntryOnly(tabHistory, time) ==
    [sessionHistory |-> SubSeq(tabHistory.sessionHistory, 1, 1),
     currentIndex |-> 0,
     tree |-> tabHistory.tree,
     lastUpdated |-> tabHistory.lastUpdated,
     closedAt |-> time,
     isClosed |-> TRUE]

\* The record handleTabClose stores: {...tabHistory, closedAt, isClosed: true}.
closedRecord(tabHistory, time) ==
    [sessionHistory |-> tabHistory.sessionHistory,
     currentIndex |-> tabHistory.currentIndex,
     tree |-> tabHistory.tree,
     lastUpdated |-> tabHistory.lastUpdated,
     closedAt |-> time,
     isClosed |-> TRUE]

moveToClosedAlone(closedHistories, tabId, tabHistory, time) ==
    tabId :> closedRecord(tabHistory, time)

\* closedTabHistories.set(tabId, ...) of handleTabClose.
moveToClosed(closedHistories, tabId, tabHistory, time) ==
    MapSet(closedHistories, tabId, closedRecord(tabHistory, time))

handleTabClose(tabId, ok) ==
    /\ tabs[tabId] = "open"
    /\ tabs' = [tabs EXCEPT ![tabId] = "gone"]
    /\ IF Has(tabHistories, tabId)
       THEN /\ closedTabHistories' =
                 moveToClosed(closedTabHistories, tabId, tabHistories[tabId], now)
            /\ tabHistories' = MapDelete(tabHistories, tabId)
            /\ tabCreationTimes' = MapDelete(tabCreationTimes, tabId)
       ELSE UNCHANGED <<tabHistories, closedTabHistories, tabCreationTimes>>
    /\ saveToStorage(tabHistories', closedTabHistories', tabCreationTimes', ok)
    /\ last' = Did("close", tabId, IF Has(tabHistories, tabId) THEN "moved" ELSE "none")
    /\ NoReply
    /\ UNCHANGED <<pending, now>>

clearHistoryKeepsClosed(histories, closedHistories, creationTimes) ==
    <<EmptyMap, closedHistories, EmptyMap>>

\* The three clear() calls of the clearHistory command: the new
\* <<tabHistories, closedTabHistories, tabCreationTimes>>.
clearHistory(histories, closedHistories, creationTimes) ==
    <<EmptyMap, EmptyMap, EmptyMap>>

clearClosedTabsAndTimes(histories, closedHistories, creationTimes) ==
    <<histories, EmptyMap, EmptyMap>>

\* The clear() call of the clearClosedTabs command.
clearClosedTabs(histories, closedHistories, creationTimes) ==
    <<histories, EmptyMap, creationTimes>>

getStatusActiveOnly(histories, closedHistories) ==
    [success |-> TRUE,
     trackedTabs |-> Cardinality(DOMAIN histories) + Cardinality(DOMAIN closedHistories),
     activeTabs |-> Cardinality(DOMAIN histories),
     closedTabs |-> Cardinality(DOMAIN closedHistories),
     totalSessionEntries |-> SumEntries(histories, DOMAIN histories)]

\* The response of the getStatus command.
getStatus(histories, closedHistories) ==
    [success |-> TRUE,
     trackedTabs |-> Cardinality(DOMAIN histories) + Cardinality(DOMAIN closedHistories),
     activeTabs |-> Cardinality(DOMAIN histories),
     closedTabs |-> Cardinality(DOMAIN closedHistories),
     totalSessionEntries |-> TotalEntries(histories, closedHistories)]

\* One item of the list getAllTabTrees builds.
treeData(tabId, tabHistory, creationTimes, isClosed) ==
    LET common == [tabId |-> tabId,
                   tree |-> tabHistory.tree,
                   sessionHistory |-> tabHistory.sessionHistory,
                   currentIndex |-> tabHistory.currentIndex,
                   lastUpdated |-> tabHistory.lastUpdated,
                   creationTime |-> IF Has(creationTimes, tabId)
                                    THEN creationTimes[tabId]
                                    ELSE tabHistory.lastUpdated,
                   isClosed |-> isClosed,
                   isActive |-> ~isClosed]
    IN IF isClosed
       THEN [k \in DOMAIN common \cup {"closedAt"} |->
               IF k = "closedAt" THEN tabHistory.closedAt ELSE common[k]]
       ELSE common

insertByLastUpdatedInFront(sorted, x) == <<x>> \o sorted

\* x put into a list sorted by lastUpdated descending, behind the items
\* that do not compare after it: Array.prototype.sort is stable.
RECURSIVE insertByLastUpdated(_, _)
insertByLastUpdated(sorted, x) ==
    IF sorted = <<>> THEN <<x>>
    ELSE IF Head(sorted).lastUpdated >= x.lastUpdated
         THEN <<Head(sorted)>> \o insertByLastUpdated(Tail(sorted), x)
         ELSE <<x>> \o sorted

\* trees.sort((a, b) => b.lastUpdated - a.lastUpdated)
RECURSIVE sortByLastUpdated(_)
sortByLastUpdated(trees) ==
    IF trees = <<>> THEN <<>>
    ELSE insertByLastUpdated(sortByLastUpdated(SubSeq(trees, 1, Len(trees) - 1)),
                             trees[Len(trees)])

\* getAllTabTrees: the active records, then the closed ones, sorted.
getAllTabTrees(histories, closedHistories, creationTimes) ==
    LET active == MapEntries(histories)
        closed == MapEntries(closedHistories)
        trees == [i \in 1..Len(active) |->
                    treeData(active[i][1], active[i][2], creationTimes, FALSE)]
                 \o [i \in 1..Len(closed) |->
                       treeData(closed[i][1], closed[i][2], creationTimes, TRUE)]
    IN sortByLastUpdated(trees)

\* simplifyTreeForDebug: url, level and isCurrent of every node, the nodes
\* in the places they have in the tree.
simplifyTreeForDebug(tree) ==
    IF tree = <<>> THEN "null"
    ELSE [k \in DOMAIN tree |-> [url |-> tree[k].entry.url,
                                 parent |-> tree[k].parent,
                                 level |-> tree[k].level,
                                 isCurrent |-> tree[k].isCurrent]]

\* The debugInfo object of the debugInfo command.
debugInfo(histories, closedHistories) ==
    LET active == MapEntries(histories)
        closed == MapEntries(closedHistories)
    IN [activeTabs |-> [i \in 1..Len(active) |->
                          [tabId |-> active[i][1],
                           sessionLength |-> Len(active[i][2].sessionHistory),
                           hasTree |-> active[i][2].tree # <<>>,
                           currentIndex |-> active[i][2].currentIndex,
                           tree |-> simplifyTreeForDebug(active[i][2].tree)]],
        closedTabs |-> [i \in 1..Len(closed) |->
                          [tabId |-> closed[i][1],
                           sessionLength |-> Len(closed[i][2].sessionHistory),
                           hasTree |-> closed[i][2].tree # <<>>,
                           currentIndex |-> closed[i][2].currentIndex,
                           tree |-> simplifyTreeForDebug(closed[i][2].tree),
                           closedAt |-> closed[i][2].closedAt]],
        totalActive |-> Len(active),
        totalClosed |-> Len(closed)]

refreshedTreeAtStart(histories, tabId) ==
    IF Has(histories, tabId)
    THEN [tabId |-> tabId,
          tree |-> histories[tabId].tree,
          sessionHistory |-> histories[tabId].sessionHistory,
          currentIndex |-> 0]
    ELSE "null"

\* The tree field of the refreshTabHistory response, the maps being as the
\* rebuild left them.
refreshedTree(histories, tabId) ==
    IF Has(histories, tabId)
    THEN [tabId |-> tabId,
          tree |-> histories[tabId].tree,
          sessionHistory |-> histories[tabId].sessionHistory,
          currentIndex |-> histories[tabId].currentIndex]
    ELSE "null"

sendResponsesUnknownSucceeds(action, tabId, histories, closedHistories, creationTimes) ==
    <<[success |-> TRUE]>>

\* The sendResponse calls handleMessage makes, given the maps as the command
\* left them.  tabId 0 stands for a request without a tabId.
sendResponses(action, tabId, histories, closedHistories, creationTimes) ==
    CASE action = "getAllTabTrees" ->
           <<[success |-> TRUE,
              tabTrees |-> getAllTabTrees(histories, closedHistories, creationTimes)]>>
      [] action \in {"clearHistory", "clearClosedTabs"} ->
           <<[success |-> TRUE]>>
      [] action = "getStatus" ->
           <<getStatus(histories, closedHistories)>>
      [] action = "refreshTabHistory" ->
           IF tabId # 0
           THEN <<[success |-> TRUE, tree |-> refreshedTree(histories, tabId)]>>
           ELSE <<>>
      [] action = "debugInfo" ->
           <<[success |-> TRUE, debugInfo |-> debugInfo(histories, closedHistories)]>>
      [] OTHER ->
           <<[success |-> FALSE, error |-> "Unknown action"]>>

handleMessage(action, tabId, ok) ==
    /\ CASE action = "clearHistory" ->
              LET cleared == clearHistory(tabHistories, closedTabHistories,
                                          tabCreationTimes)
              IN /\ tabHistories' = cleared[1]
                 /\ closedTabHistories' = cleared[2]
                 /\ tabCreationTimes' = cleared[3]
                 /\ saveToStorage(cleared[1], cleared[2], cleared[3], ok)
         [] action = "clearClosedTabs" ->
              LET cleared == clearClosedTabs(tabHistories, closedTabHistories,
                                             tabCreationTimes)
              IN /\ tabHistories' = cleared[1]
                 /\ closedTabHistories' = cleared[2]
                 /\ tabCreationTimes' = cleared[3]
                 /\ saveToStorage(cleared[1], cleared[2], cleared[3], ok)
         [] action = "refreshTabHistory" ->
              /\ tabHistories' = IF tabId # 0
                                 THEN buildTreeFromSessionHistory(tabHistories, tabId)
                                 ELSE tabHistories
              /\ NoWrite
              /\ UNCHANGED <<closedTabHistories, tabCreationTimes>>
         [] OTHER ->
              /\ NoWrite
              /\ UNCHANGED <<tabHistories, closedTabHistories, tabCreationTimes>>
    /\ response' = sendResponses(action, tabId, tabHistories', closedTabHistories',
                                 tabCreationTimes')
    /\ last' = Did("message", IF action = "refreshTabHistory" THEN tabId ELSE 0, action)
    /\ UNCHANGED <<pending, tabs, now>>

\* Mutant: the has() test is missing.
initializeTabHistoryAlways(histories, tabId, url, time) ==
    MapSet(histories, tabId, newTabHistory(url, time))

\* initializeTabHistory: the new tabHistories.
initializeTabHistory(histories, tabId, url, time) ==
    IF ~Has(histories, tabId)
    THEN MapSet(histories, tabId, newTabHistory(url, time))
    ELSE histories

\* The loop of initializeExistingTabs over the tabs in todo; urlOf gives the
\* URL the browser reports for each.  maps is <<tabHistories, tabCreationTimes>>.
RECURSIVE discoverTabs(_, _, _, _)
discoverTabs(maps, todo, urlOf, time) ==
    IF todo = {} THEN maps
    ELSE LET tabId == CHOOSE t \in todo : \A u \in todo : t <= u
             times == IF ~Has(maps[2], tabId) THEN MapSet(maps[2], tabId, time)
                      ELSE maps[2]
             histories == IF isValidUrl(urlOf[tabId])
                          THEN initializeTabHistory(maps[1], tabId, urlOf[tabId], time)
                          ELSE maps[1]
         IN discoverTabs(<<histories, times>>, todo \ {tabId}, urlOf, time)

\* The service worker starts again: the constructor empties the maps and
\* init runs loadStoredData, then initializeExistingTabs.
Restart(urlOf) ==
    LET loadedHistories == IF storage = NoData THEN EmptyMap
                           ELSE loadedTabHistories(storage)
        loadedClosed == IF storage = NoData THEN EmptyMap
                        ELSE MapFromEntries(storage.closedTabHistories)
        loadedTimes == IF storage = NoData THEN EmptyMap
                       ELSE MapFromEntries(storage.tabCreationTimes)
        found == discoverTabs(<<loadedHistories, loadedTimes>>, DOMAIN urlOf, urlOf, now)
    IN /\ tabHistories' = found[1]
       /\ closedTabHistories' = loadedClosed
       /\ tabCreationTimes' = found[2]
       /\ pending' = <<>>
       /\ last' = Did("init", 0, "none")
       /\ NoWrite
       /\ NoReply
       /\ UNCHANGED <<tabs, now>>

Tick ==
    /\ now < MaxNow
    /\ now' = now + 1
    /\ UNCHANGED <<tabHistories, closedTabHistories, tabCreationTimes, storage,
                   pending, tabs, written, response, last>>

\* ------------------------------------------------------------------------
\* The tracker with every probe answered at once
\* ------------------------------------------------------------------------

Init ==
    /\ tabHistories = EmptyMap
    /\ closedTabHistories = EmptyMap
    /\ tabCreationTimes = EmptyMap
    /\ storage = NoData
    /\ pending = <<>>
    /\ tabs = [t \in TabIds |-> "unborn"]
    /\ now = 0
    /\ written = "none"
    /\ response = <<>>
    /\ last = [op |-> "constructed", tab |-> 0, kind |-> "none"]

\* The URLs the browser reports in the two-tab specification.
TwoTabUrls == {<<"http:", "A">>, <<"https:", "B">>} \cup OtherUrls \cup {NoUrl}

\* The model's cap on the entries held after a step.
WithinBound(cap) == TotalEntries(tabHistories', closedTabHistories') <= cap

OpenTabs == {t \in TabIds : tabs[t] = "open"}

Next ==
    \/ \E t \in TabIds : handleTabCreated(t)
    \/ \E t \in TabIds, s \in Statuses, u \in TwoTabUrls, h \in ProbeResults :
         handleTabUpdate(t, s, u, h, TRUE) /\ WithinBound(MaxTotalEntries)
    \/ \E t \in TabIds, u \in TwoTabUrls, h \in ProbeResults :
         handleTabActivation(t, u, h, TRUE) /\ WithinBound(MaxTotalEntries)
    \/ \E t \in TabIds : handleTabClose(t, TRUE)
    \/ \E a \in Actions :
         \E t \in (IF a = "refreshTabHistory" THEN TabIds \cup {0} ELSE {0}) :
            handleMessage(a, t, TRUE)
    \/ \E urlOf \in [OpenTabs -> TwoTabUrls] :
         Restart(urlOf) /\ WithinBound(MaxTotalEntries)

Spec == Init /\ [][Next]_vars

\* ------------------------------------------------------------------------
\* One tab navigating, its clock running
\* ------------------------------------------------------------------------

NavTabs == {1}

NextNav ==
    \/ \E t \in NavTabs : handleTabCreated(t)
    \/ \E t \in NavTabs, s \in Statuses, u \in Urls, h \in ProbeResults :
         handleTabUpdate(t, s, u, h, TRUE) /\ WithinBound(MaxEntries)
    \/ \E t \in NavTabs, u \in Urls, h \in ProbeResults :
         handleTabActivation(t, u, h, TRUE) /\ WithinBound(MaxEntries)
    \/ \E t \in NavTabs \cup {0} : handleMessage("refreshTabHistory", t, TRUE)
    \/ \E urlOf \in [OpenTabs -> Urls] : Restart(urlOf) /\ WithinBound(MaxEntries)
    \/ Tick

SpecNav == Init /\ [][NextNav]_vars

\* ------------------------------------------------------------------------
\* Two tabs navigating, the clock running
\* ------------------------------------------------------------------------

NextPair ==
    \/ \E t \in TabIds : handleTabCreated(t)
    \/ \E t \in TabIds, s \in Statuses, u \in TwoTabUrls, h \in ProbeResults :
         handleTabUpdate(t, s, u, h, TRUE) /\ WithinBound(MaxTotalEntries)
    \/ \E t \in TabIds, u \in TwoTabUrls, h \in ProbeResults :
         handleTabActivation(t, u, h, TRUE) /\ WithinBound(MaxTotalEntries)
    \/ \E t \in TabIds \cup {0} : handleMessage("refreshTabHistory", t, TRUE)
    \/ \E urlOf \in [OpenTabs -> TwoTabUrls] :
         Restart(urlOf) /\ WithinBound(MaxTotalEntries)
    \/ Tick

SpecPair == Init /\ [][NextPair]_vars

\* ------------------------------------------------------------------------
\* Handlers that wait: handleTabActivation awaits chrome.tabs.get, both
\* navigation handlers await the probe, and the store may reject a write.
\* pending holds the waiting handlers in the order their events arrived.
\* ------------------------------------------------------------------------

RemoveAt(seq, i) == SubSeq(seq, 1, i - 1) \o SubSeq(seq, i + 1, Len(seq))

Waiting(tabId, url, type, stage) ==
    [tab |-> tabId, url |-> url, type |-> type, stage |-> stage]

\* handleTabUpdate up to its await of getTabHistoryInfo.
beginTabUpdate(tabId, status, url) ==
    /\ tabs[tabId] = "open"
    /\ Len(pending) < MaxPending
    /\ pending' = IF tabUpdateAccepted(status, url)
                  THEN Append(pending, Waiting(tabId, url, "navigation", "probe"))
                  ELSE pending
    /\ last' = Did("event", tabId,
                   IF tabUpdateAccepted(status, url) THEN "update" ELSE "ignored")
    /\ NoWrite
    /\ NoReply
    /\ UNCHANGED <<tabHistories, closedTabHistories, tabCreationTimes, tabs, now>>

\* handleTabActivation up to its await of chrome.tabs.get.
beginTabActivation(tabId) ==
    /\ tabs[tabId] = "open"
    /\ Len(pending) < MaxPending
    /\ pending' = Append(pending, Waiting(tabId, NoUrl, "activation", "get"))
    /\ last' = Did("event", tabId, "activation")
    /\ NoWrite
    /\ NoReply
    /\ UNCHANGED <<tabHistories, closedTabHistories, tabCreationTimes, tabs, now>>

\* chrome.tabs.get settles for the handler at position i: it rejects when the
\* tab is gone, and the handler ends there; otherwise it reports the URL.
tabsGetSettled(i, url) ==
    /\ i \in 1..Len(pending)
    /\ pending[i].stage = "get"
    /\ LET tabId == pending[i].tab
           goesOn == tabs[tabId] = "open" /\ tabActivationAccepted(url)
       IN /\ pending' = IF goesOn
                        THEN [pending EXCEPT ![i] =
                                 Waiting(tabId, url, "activation", "probe")]
                        ELSE RemoveAt(pending, i)
          /\ last' = Did("tabs.get", tabId, IF goesOn THEN "accepted" ELSE "ended")
    /\ NoWrite
    /\ NoReply
    /\ UNCHANGED <<tabHistories, closedTabHistories, tabCreationTimes, tabs, now>>

\* Mutant: no catch around executeScript, nothing comes back for a tab that
\* is gone.
ProbeOutcomesOpenOnly(tabId) ==
    IF tabs[tabId] = "open" THEN AllHistoryInfo ELSE {}

\* What getTabHistoryInfo can return for a tab: the page's answer or the
\* defaults for an open tab, the defaults for a tab that is gone.
ProbeOutcomes(tabId) ==
    IF tabs[tabId] = "open" THEN AllHistoryInfo ELSE {DefaultHistoryInfo}

\* The probe settles for the handler at position i, which goes on to
\* updateTabHistory.
probeSettled(i, historyInfo, ok) ==
    /\ i \in 1..Len(pending)
    /\ pending[i].stage = "probe"
    /\ historyInfo \in ProbeOutcomes(pending[i].tab)
    /\ ApplyUpdate(pending[i].tab, pending[i].url, pending[i].type, historyInfo, ok)
    /\ pending' = RemoveAt(pending, i)
    /\ UNCHANGED <<tabs, now>>

\* One tab whose handlers wait; the store accepts every write.
NextAsync ==
    \/ \E t \in NavTabs : handleTabCreated(t)
    \/ \E t \in NavTabs, s \in Statuses, u \in TwoTabUrls : beginTabUpdate(t, s, u)
    \/ \E t \in NavTabs : beginTabActivation(t)
    \/ \E i \in 1..MaxPending, u \in TwoTabUrls : tabsGetSettled(i, u)
    \/ \E i \in 1..MaxPending, h \in AllHistoryInfo :
         probeSettled(i, h, TRUE) /\ WithinBound(MaxTotalEntries)
    \/ \E t \in NavTabs : handleTabClose(t, TRUE)
    \/ \E a \in Actions : handleMessage(a, 0, TRUE)

SpecAsync == Init /\ [][NextAsync]_vars

\* ------------------------------------------------------------------------
\* Handlers that wait, every probe settling in the end
\* ------------------------------------------------------------------------

\* The model takes a new event only while every waiting handler can still
\* add its entry within the cap.
Room == TotalEntries(tabHistories, closedTabHistories) + Len(pending') <= MaxTotalEntries

\* The URLs of the two-tab specification that the handlers accept.
TrackedUrls == {u \in TwoTabUrls : isValidUrl(u)}

\* The handlers that can wait for the probe.
ProbeWaiters ==
    {Waiting(t, u, type, "probe") : t \in NavTabs, u \in TrackedUrls, type \in EventTypes}

\* The probe of a handler waiting as w settles.
probeSettledFor(w) ==
    \E i \in 1..Len(pending), h \in AllHistoryInfo :
       pending[i] = w /\ probeSettled(i, h, TRUE)

NextLive ==
    \/ \E t \in NavTabs : handleTabCreated(t)
    \/ \E t \in NavTabs, s \in Statuses, u \in TwoTabUrls :
         beginTabUpdate(t, s, u) /\ Room
    \/ \E t \in NavTabs : beginTabActivation(t) /\ Room
    \/ \E i \in 1..MaxPending, u \in TwoTabUrls : tabsGetSettled(i, u)
    \/ \E w \in ProbeWaiters : probeSettledFor(w)
    \/ \E t \in NavTabs : handleTabClose(t, TRUE)
    \/ handleMessage("clearHistory", 0, TRUE)

\* executeScript resolves or rejects for every handler that awaits it.
SpecLive ==
    /\ Init
    /\ [][NextLive]_vars
    /\ \A w \in ProbeWaiters : WF_vars(probeSettledFor(w))

\* ------------------------------------------------------------------------
\* A store that may reject any write
\* ------------------------------------------------------------------------

PurgeActions == {"clearHistory", "clearClosedTabs", "getStatus"}

NextStore ==
    \/ \E t \in NavTabs : handleTabCreated(t)
    \/ \E t \in NavTabs, s \in Statuses, u \in TwoTabUrls, h \in ProbeResults,
          ok \in BOOLEAN :
         handleTabUpdate(t, s, u, h, ok) /\ WithinBound(MaxTotalEntries)
    \/ \E t \in NavTabs, ok \in BOOLEAN : handleTabClose(t, ok)
    \/ \E a \in PurgeActions, ok \in BOOLEAN : handleMessage(a, 0, ok)
    \/ \E urlOf \in [OpenTabs -> TwoTabUrls] :
         Restart(urlOf) /\ WithinBound(MaxTotalEntries)

SpecStore == Init /\ [][NextStore]_vars

\* ------------------------------------------------------------------------
\* Two tabs, the clock running, and the popup asking
\* ------------------------------------------------------------------------

QueryActions == {"getAllTabTrees", "getStatus", "refreshTabHistory", "debugInfo",
                 "bogus"}

NextQuery ==
    \/ \E t \in TabIds : handleTabCreated(t)
    \/ \E t \in TabIds, s \in Statuses, u \in TwoTabUrls, h \in ProbeResults :
         handleTabUpdate(t, s, u, h, TRUE) /\ WithinBound(MaxTotalEntries)
    \/ \E t \in TabIds : handleTabClose(t, TRUE)
    \/ \E a \in QueryActions :
         \E t \in (IF a = "refreshTabHistory" THEN TabIds \cup {0} ELSE {0}) :
            handleMessage(a, t, TRUE)
    \/ Tick

SpecQuery == Init /\ [][NextQuery]_vars

\* ------------------------------------------------------------------------
\* The tree builder on stored logs: the worker starts on a blob whose one
\* record holds any log of up to MaxEntries entries
\* ------------------------------------------------------------------------

BuildLogs ==
    UNION {{[i \in 1..n |-> createHistoryEntry(
                               f[i], IF i = 1 THEN "initial" ELSE "navigation")] :
              f \in [1..n -> ValidUrls]} : n \in 0..MaxEntries}

NoTree == <<>>

StoredTrees ==
    {NoTree, <<createTreeNode(createHistoryEntry(<<"http:", "A">>, "initial"), 0, TRUE)>>}

BuildRecords ==
    {[sessionHistory |-> sh, currentIndex |-> ci, tree |-> tr,
      lastUpdated |-> 0, isClosed |-> FALSE] :
        sh \in BuildLogs, ci \in 0..MaxEntries, tr \in StoredTrees}

InitBuild ==
    /\ tabHistories = EmptyMap
    /\ closedTabHistories = EmptyMap
    /\ tabCreationTimes = EmptyMap
    /\ \E t \in NavTabs, r \in BuildRecords :
         /\ r.currentIndex < Max(1, Len(r.sessionHistory))
         /\ storage = Snapshot(t :> r, EmptyMap, EmptyMap)
    /\ pending = <<>>
    /\ tabs = [t \in TabIds |-> "unborn"]
    /\ now = 0
    /\ written = "none"
    /\ response = <<>>
    /\ last = [op |-> "constructed", tab |-> 0, kind |-> "none"]

\* init registers the message listener after loadStoredData.
Listening == last.op # "constructed"

NextBuild ==
    \/ \E urlOf \in [OpenTabs -> Urls] : Restart(urlOf)
    \/ \E t \in TabIds \cup {0} : Listening /\ handleMessage("refreshTabHistory", t, TRUE)

SpecBuild == InitBuild /\ [][NextBuild]_vars

\* ------------------------------------------------------------------------
\* Properties
\* ------------------------------------------------------------------------

Tracked == DOMAIN tabHistories

CurrentNodes(tree) == {k \in DOMAIN tree : tree[k].isCurrent}

\* The URL of the entry at 0-based position i of a log.
UrlAt(sessionHistory, i) == sessionHistory[i + 1].url

SameLog(a, b) ==
    /\ a.sessionHistory = b.sessionHistory
    /\ a.currentIndex = b.currentIndex

\* URLs an update can carry in the properties below: the model's valid URLs
\* and one more that no log holds.
FreshUrl == <<"http:", "D">>
UpdateUrls == ValidUrls \cup {FreshUrl}

\* Section 4.2 of the specification, over entry positions: the 0-based
\* positions of the entries whose nodes form the current branch once
\* entries 0..i of the log are placed.
RECURSIVE branchEntries(_, _)
branchEntries(sessionHistory, i) ==
    IF i = 0 THEN <<0>>
    ELSE LET before == branchEntries(sessionHistory, i - 1)
             hits == {p \in 1..Len(before) :
                        UrlAt(sessionHistory, before[p]) = UrlAt(sessionHistory, i)}
         IN IF hits = {} THEN Append(before, i)
            ELSE SubSeq(before, 1, CHOOSE p \in hits : \A q \in hits : p <= q)

\* Entry i revisits a URL of the current branch.
isRevisit(sessionHistory, i) ==
    LET branch == branchEntries(sessionHistory, i)
    IN branch[Len(branch)] # i

\* The position in the tree of the node made for entry i: nodes are made in
\* log order, one for every entry that is no revisit.
nodeOfEntry(sessionHistory, i) ==
    Cardinality({j \in 0..i : ~isRevisit(sessionHistory, j)})

\* C1: the tree of every tracked tab reached by navigation updates has
\* exactly one node with isCurrent = TRUE.
C1_SingleCurrentNode ==
    \A t \in Tracked : Cardinality(CurrentNodes(tabHistories[t].tree)) = 1

\* C2: every active record has a non-empty sessionHistory and
\* 0 <= currentIndex < length(sessionHistory).
C2_IndexInRange ==
    \A t \in Tracked :
       /\ Len(tabHistories[t].sessionHistory) >= 1
       /\ tabHistories[t].currentIndex >= 0
       /\ tabHistories[t].currentIndex < Len(tabHistories[t].sessionHistory)

C2_Witness ==
    \E t \in Tracked :
       /\ last = [op |-> "update", tab |-> t, kind |-> "back"]
       /\ tabHistories[t].currentIndex = 0
       /\ Len(tabHistories[t].sessionHistory) = 2
       /\ DOMAIN closedTabHistories # {}

\* C3: the stored tree of every active record equals the tree rebuilt from
\* the record's sessionHistory and currentIndex.
C3_TreeIsRebuild ==
    \A t \in Tracked :
       tabHistories[t].tree =
          buildTree(tabHistories[t].sessionHistory, tabHistories[t].currentIndex)

C3_Witness ==
    \E t \in Tracked :
       /\ last = [op |-> "update", tab |-> t, kind |-> "back"]
       /\ Len(tabHistories[t].tree) >= 2
       /\ tabHistories[t].tree[1].isCurrent

\* C4: an update whose url is the URL of the current entry leaves
\* sessionHistory and currentIndex unchanged, for every event type and every
\* canGoBack / canGoForward.
C4_RefreshKeepsLog ==
    \A t \in Tracked : \A type \in EventTypes, h \in AllHistoryInfo :
       LET tabHistory == tabHistories[t]
           url == UrlAt(tabHistory.sessionHistory, tabHistory.currentIndex)
           after == updateTabHistory(tabHistories, t, url, type, h, now)
       IN SameLog(after[t], tabHistory)

C4_Witness ==
    \E t \in Tracked :
       /\ last = [op |-> "update", tab |-> t, kind |-> "refresh"]
       /\ tabHistories[t].currentIndex >= 1
       /\ tabHistories[t].currentIndex < Len(tabHistories[t].sessionHistory) - 1
       /\ tabHistories[t].lastUpdated > 0

\* The back half of the round trip: from currentIndex = k >= 1, an update
\* with the URL of entry k-1 and canGoBack moves to k-1, the log unchanged.
BackStepHolds(t, type, h) ==
    LET tabHistory == tabHistories[t]
        k == tabHistory.currentIndex
        back == updateTabHistory(tabHistories, t,
                                 UrlAt(tabHistory.sessionHistory, k - 1), type, h, now)
    IN /\ back[t].currentIndex = k - 1
       /\ back[t].sessionHistory = tabHistory.sessionHistory

\* tabHistories after that back step.
AfterBack(t, type, h) ==
    updateTabHistory(tabHistories, t,
                     UrlAt(tabHistories[t].sessionHistory,
                           tabHistories[t].currentIndex - 1), type, h, now)

\* C5 as claimed: after the back step, an update with the URL of entry k and
\* canGoForward moves back to k for either value of canGoBack.
C5_RoundTripAnyCanGoBack ==
    \A t \in Tracked : \A type \in EventTypes, h1 \in AllHistoryInfo, h2 \in AllHistoryInfo :
       LET tabHistory == tabHistories[t]
           k == tabHistory.currentIndex
       IN (k >= 1 /\ h1.canGoBack /\ h2.canGoForward) =>
            /\ BackStepHolds(t, type, h1)
            /\ LET forth == updateTabHistory(AfterBack(t, type, h1), t,
                                             UrlAt(tabHistory.sessionHistory, k),
                                             type, h2, now)
               IN /\ forth[t].currentIndex = k
                  /\ forth[t].sessionHistory = tabHistory.sessionHistory

\* C5 amended: the second update moves back to k unless it reports canGoBack
\* and entry k-2 has the URL of entry k; then it is applied as back and
\* moves to k-2.  sessionHistory is unchanged in both cases.
C5_RoundTrip ==
    \A t \in Tracked : \A type \in EventTypes, h1 \in AllHistoryInfo, h2 \in AllHistoryInfo :
       LET tabHistory == tabHistories[t]
           k == tabHistory.currentIndex
           backWins == /\ h2.canGoBack
                       /\ k >= 2
                       /\ UrlAt(tabHistory.sessionHistory, k - 2)
                            = UrlAt(tabHistory.sessionHistory, k)
       IN (k >= 1 /\ h1.canGoBack /\ h2.canGoForward) =>
            /\ BackStepHolds(t, type, h1)
            /\ LET forth == updateTabHistory(AfterBack(t, type, h1), t,
                                             UrlAt(tabHistory.sessionHistory, k),
                                             type, h2, now)
               IN /\ forth[t].currentIndex = IF backWins THEN k - 2 ELSE k
                  /\ forth[t].sessionHistory = tabHistory.sessionHistory

C5_Witness ==
    \E t \in Tracked :
       /\ last = [op |-> "update", tab |-> t, kind |-> "forward"]
       /\ tabHistories[t].currentIndex = 1
       /\ Len(tabHistories[t].sessionHistory) = 3

\* C6: from currentIndex = k < length-1, an update that is neither refresh,
\* back nor forward leaves entries 0..k followed by one new entry with the
\* update's url, currentIndex = k+1 the last index, and a tree whose nodes
\* all hold entries of the new log.
C6_TruncateOnNewNavigation ==
    \A t \in Tracked : \A url \in UpdateUrls, type \in EventTypes, h \in AllHistoryInfo :
       LET tabHistory == tabHistories[t]
           sh == tabHistory.sessionHistory
           k == tabHistory.currentIndex
           refresh == UrlAt(sh, k) = url
           back == k > 0 /\ UrlAt(sh, k - 1) = url /\ h.canGoBack
           forward == UrlAt(sh, k + 1) = url /\ h.canGoForward
           after == updateTabHistory(tabHistories, t, url, type, h, now)[t]
       IN (k < Len(sh) - 1 /\ ~refresh /\ ~back /\ ~forward) =>
            /\ after.sessionHistory =
                  Append(SubSeq(sh, 1, k + 1), [url |-> url, type |-> type])
            /\ after.currentIndex = k + 1
            /\ after.currentIndex = Len(after.sessionHistory) - 1
            /\ \A n \in DOMAIN after.tree :
                  \E i \in DOMAIN after.sessionHistory :
                     after.sessionHistory[i] = after.tree[n].entry
            /\ Len(after.tree) <= Len(after.sessionHistory)

C6_Witness ==
    \E t \in Tracked :
       /\ last = [op |-> "update", tab |-> t, kind |-> "truncate"]
       /\ Len(tabHistories[t].sessionHistory) = 3
       /\ tabHistories[t].currentIndex = 2
       /\ Len(tabHistories[t].tree) = 3
       /\ tabHistories[t].tree[3].parent = 2

\* C7: a rebuilt tree has one node for every entry that is no revisit of a
\* URL on the current branch, a child of the node the branch ended with;
\* a revisit adds no node and cuts the branch back to the revisited node,
\* and earlier nodes stay.  When the last entry is a revisit and is current,
\* the revisited node alone is current.
C7_BranchDetection ==
    \A t \in Tracked :
       LET sh == tabHistories[t].sessionHistory
           tree == tabHistories[t].tree
           final == Len(sh) - 1
       IN Len(sh) >= 1 =>
            /\ Len(tree) = Cardinality({i \in 0..final : ~isRevisit(sh, i)})
            /\ \A i \in 0..final :
                  LET branch == branchEntries(sh, i)
                      node == tree[nodeOfEntry(sh, i)]
                  IN ~isRevisit(sh, i) =>
                       /\ node.entry = sh[i + 1]
                       /\ node.level = Len(branch) - 1
                       /\ node.parent = IF i = 0 THEN 0
                                        ELSE nodeOfEntry(sh, branch[Len(branch) - 1])
            /\ (isRevisit(sh, final) /\ tabHistories[t].currentIndex = final) =>
                  LET branch == branchEntries(sh, final)
                  IN \A k \in DOMAIN tree :
                        tree[k].isCurrent <=> k = nodeOfEntry(sh, branch[Len(branch)])

C7_Witness ==
    \E t \in Tracked :
       LET sh == tabHistories[t].sessionHistory
           tree == tabHistories[t].tree
       IN /\ Len(sh) = 4
          /\ tabHistories[t].currentIndex = 3
          /\ UrlAt(sh, 3) = UrlAt(sh, 1)
          /\ Cardinality({UrlAt(sh, i) : i \in 0..2}) = 3
          /\ Len(tree) = 3
          /\ tree[2].isCurrent /\ ~tree[3].isCurrent /\ ~tree[1].isCurrent
          /\ tree[3].parent = 2

\* A step taken by a handler, not by the clock.
HandlerStep == now' = now

IsRefreshStep ==
    /\ HandlerStep
    /\ last'.op = "message"
    /\ last'.kind = "refreshTabHistory"

\* The blob with the tree of every active record removed.
WithoutTrees(data) ==
    [data EXCEPT !.tabHistories =
       [i \in DOMAIN data.tabHistories |->
          <<data.tabHistories[i][1],
            [data.tabHistories[i][2] EXCEPT !.tree = NoTree]>>]]

\* C8: rebuilding a tree that was built from the same log changes nothing,
\* and the tree built on load is the one built when the blob stores no tree.
C8_Step ==
    /\ IsRefreshStep => tabHistories' = tabHistories
    /\ (last'.op = "init" /\ Listening) => tabHistories' = tabHistories
    /\ last'.op = "init" =>
          \A t \in DOMAIN tabHistories' :
             Len(tabHistories'[t].sessionHistory) >= 1 =>
                tabHistories'[t].tree = loadedTabHistories(WithoutTrees(storage))[t].tree

C8_IdempotentRebuild == [][C8_Step]_vars

C8_Witness ==
    \E t \in Tracked :
       /\ last = [op |-> "message", tab |-> t, kind |-> "refreshTabHistory"]
       /\ Len(tabHistories[t].sessionHistory) = 4
       /\ Len(tabHistories[t].tree) = 3
       /\ MapFromEntries(storage.tabHistories)[t].tree # NoTree

\* Records a and b differ in the tree at most.
SameButTree(a, b) ==
    /\ SameLog(a, b)
    /\ a.lastUpdated = b.lastUpdated
    /\ a.isClosed = b.isClosed

\* C9: a step that runs the builder (refreshTabHistory, load, update) leaves
\* every record as the tracker made it except for the tree of the tab built.
C9_Step ==
    /\ IsRefreshStep =>
          /\ UNCHANGED <<closedTabHistories, tabCreationTimes, storage>>
          /\ DOMAIN tabHistories' = DOMAIN tabHistories
          /\ \A t \in Tracked :
                /\ SameButTree(tabHistories'[t], tabHistories[t])
                /\ t # last'.tab => tabHistories'[t] = tabHistories[t]
    /\ (HandlerStep /\ last'.op = "init" /\ storage # NoData) =>
          \A t \in DOMAIN MapFromEntries(storage.tabHistories) :
             /\ t \in DOMAIN tabHistories'
             /\ SameButTree(tabHistories'[t], MapFromEntries(storage.tabHistories)[t])
    /\ (HandlerStep /\ last'.op = "update" /\ last'.kind # "ignored") =>
          \E url \in ValidUrls, type \in EventTypes, h \in ProbeResults :
             LET tracked == classifyAndApply(tabHistories, last'.tab, url, type, h, now)
             IN /\ DOMAIN tabHistories' = DOMAIN tracked
                /\ \A t \in DOMAIN tracked :
                      /\ SameButTree(tabHistories'[t], tracked[t])
                      /\ t # last'.tab => tabHistories'[t] = tracked[t]

C9_BuilderKeepsLog == [][C9_Step]_vars

C9_Witness ==
    \E t \in Tracked :
       /\ last = [op |-> "message", tab |-> t, kind |-> "refreshTabHistory"]
       /\ Len(tabHistories[t].sessionHistory) >= 2
       /\ tabHistories[t].lastUpdated < now
       /\ \E other \in Tracked \ {t} : tabHistories[other].lastUpdated = now

\* C10: the builder run for a tab with an empty log, or for a tab id with no
\* active record, changes nothing.
C10_Step ==
    /\ (/\ IsRefreshStep
        /\ \/ last'.tab \notin Tracked
           \/ Len(tabHistories[last'.tab].sessionHistory) = 0) =>
          UNCHANGED <<tabHistories, closedTabHistories, tabCreationTimes, storage>>
    /\ (last'.op = "init" /\ storage # NoData) =>
          \A t \in DOMAIN MapFromEntries(storage.tabHistories) :
             Len(MapFromEntries(storage.tabHistories)[t].sessionHistory) = 0 =>
                /\ t \in DOMAIN tabHistories'
                /\ tabHistories'[t] = MapFromEntries(storage.tabHistories)[t]

C10_EmptyLogSafe == [][C10_Step]_vars

C10_Witness ==
    \E t \in Tracked :
       /\ last = [op |-> "message", tab |-> t, kind |-> "refreshTabHistory"]
       /\ Len(tabHistories[t].sessionHistory) = 0
       /\ tabHistories[t].tree # NoTree

\* ------------------------------------------------------------------------
\* Closed tabs and the clear commands
\* ------------------------------------------------------------------------

\* The step is the handling of the tab-closed event of tab t.
IsCloseStep(t) == tabs[t] = "open" /\ tabs'[t] = "gone"

\* C11: closing a tab with an active record removes the record from the
\* active set and puts a record with the same sessionHistory, currentIndex
\* and tree, isClosed = TRUE and closedAt = now into the closed set under the
\* same id; every other record of both sets stays; closing a tab with no
\* active record changes neither set.
C11_Step ==
    \A t \in TabIds : IsCloseStep(t) =>
       IF t \in Tracked
       THEN /\ DOMAIN tabHistories' = Tracked \ {t}
            /\ \A u \in Tracked \ {t} : tabHistories'[u] = tabHistories[u]
            /\ DOMAIN closedTabHistories' = DOMAIN closedTabHistories \cup {t}
            /\ \A u \in DOMAIN closedTabHistories \ {t} :
                  closedTabHistories'[u] = closedTabHistories[u]
            /\ SameLog(closedTabHistories'[t], tabHistories[t])
            /\ closedTabHistories'[t].tree = tabHistories[t].tree
            /\ closedTabHistories'[t].isClosed
            /\ closedTabHistories'[t].closedAt = now
       ELSE UNCHANGED <<tabHistories, closedTabHistories>>

C11_ClosedTabRetention == [][C11_Step]_vars

C11_Witness ==
    \E t \in DOMAIN closedTabHistories :
       /\ last = [op |-> "close", tab |-> t, kind |-> "moved"]
       /\ Len(closedTabHistories[t].sessionHistory) >= 2
       /\ closedTabHistories[t].currentIndex = 0
       /\ Len(closedTabHistories[t].tree) >= 2
       /\ Tracked # {}

IsPurgeStep ==
    /\ last'.op = "message"
    /\ last'.kind \in {"clearHistory", "clearClosedTabs"}

\* C12: a record of the closed set stays there, with its sessionHistory and
\* currentIndex as they were, through every step that is not the handling of
\* clearClosedTabs or clearHistory.
C12_Step ==
    ~IsPurgeStep =>
       \A t \in DOMAIN closedTabHistories :
          /\ t \in DOMAIN closedTabHistories'
          /\ SameLog(closedTabHistories'[t], closedTabHistories[t])

C12_ClosedUntilPurge == [][C12_Step]_vars

C12_Witness ==
    \E t \in DOMAIN closedTabHistories, u \in DOMAIN closedTabHistories :
       /\ t # u
       /\ last = [op |-> "close", tab |-> u, kind |-> "moved"]
       /\ Len(closedTabHistories[t].sessionHistory) >= 2

\* C13: clearClosedTabs empties the closed set and leaves the active set and
\* the tab creation times as they were.
C13_Step ==
    (last'.op = "message" /\ last'.kind = "clearClosedTabs") =>
       /\ closedTabHistories' = EmptyMap
       /\ tabHistories' = tabHistories
       /\ tabCreationTimes' = tabCreationTimes

C13_ClearClosedTabsFrame == [][C13_Step]_vars

C13_Witness ==
    /\ last = [op |-> "message", tab |-> 0, kind |-> "clearClosedTabs"]
    /\ closedTabHistories = EmptyMap
    /\ \E t \in TabIds : tabs[t] = "gone"
    /\ \E t \in Tracked :
          /\ Len(tabHistories[t].sessionHistory) >= 2
          /\ Has(tabCreationTimes, t)

\* C14: clearHistory leaves the active set and the closed set empty, and a
\* getStatus handled right after it reports trackedTabs = 0 and
\* totalSessionEntries = 0.
C14_Step ==
    /\ (last'.op = "message" /\ last'.kind = "clearHistory") =>
          /\ tabHistories' = EmptyMap
          /\ closedTabHistories' = EmptyMap
    /\ (/\ last.op = "message" /\ last.kind = "clearHistory"
        /\ last'.op = "message" /\ last'.kind = "getStatus") =>
          /\ getStatus(tabHistories', closedTabHistories').trackedTabs = 0
          /\ getStatus(tabHistories', closedTabHistories').totalSessionEntries = 0

C14_ClearHistoryEmpties == [][C14_Step]_vars

C14_Witness ==
    /\ last = [op |-> "message", tab |-> 0, kind |-> "clearHistory"]
    /\ getStatus(tabHistories, closedTabHistories).trackedTabs = 0
    /\ \E t \in TabIds : tabs[t] = "gone"
    /\ \E t \in TabIds : tabs[t] = "open"
    /\ storage = Snapshot(EmptyMap, EmptyMap, EmptyMap)

\* ------------------------------------------------------------------------
\* The validity filter
\* ------------------------------------------------------------------------

StartsWithHttp(url) == url # NoUrl /\ url[1] \in {"http:", "https:"}

AllEntriesHttp(map) ==
    \A t \in DOMAIN map :
       \A i \in 1..Len(map[t].sessionHistory) :
          StartsWithHttp(map[t].sessionHistory[i].url)

\* C15: a tab update, a tab activation and the discovery of an open tab at
\* startup go no further than their guard when the URL does not start with
\* http: or https:, a handler stopped by its guard changes no record, and
\* every entry of every log has an http: or https: URL.
C15_Step ==
    /\ \A url \in Urls : ~StartsWithHttp(url) =>
          /\ \A status \in Statuses : ~tabUpdateAccepted(status, url)
          /\ ~tabActivationAccepted(url)
          /\ \A t \in TabIds :
                discoverTabs(<<tabHistories, tabCreationTimes>>, {t},
                             [x \in {t} |-> url], now)[1] = tabHistories
    /\ (last'.op = "update" /\ last'.kind = "ignored") =>
          UNCHANGED <<tabHistories, closedTabHistories>>
    /\ AllEntriesHttp(tabHistories') /\ AllEntriesHttp(closedTabHistories')

C15_ValidityFilter == [][C15_Step]_vars

C15_Witness ==
    \E t \in Tracked :
       /\ last = [op |-> "update", tab |-> t, kind |-> "ignored"]
       /\ Len(tabHistories[t].sessionHistory) >= 2
       /\ closedTabHistories # EmptyMap

\* ------------------------------------------------------------------------
\* Classification order
\* ------------------------------------------------------------------------

\* The rule the code is compared with: refresh, then back, then forward,
\* then new navigation, the first match winning.  The result is the log and
\* the index of the record after the update.
RefreshFirst(tabHistory, url, type, historyInfo) ==
    LET sessionHistory == tabHistory.sessionHistory
        k == tabHistory.currentIndex
        n == Len(sessionHistory)
    IN IF UrlAt(sessionHistory, k) = url
       THEN [sessionHistory |-> sessionHistory, currentIndex |-> k]
       ELSE IF k > 0 /\ UrlAt(sessionHistory, k - 1) = url /\ historyInfo.canGoBack
       THEN [sessionHistory |-> sessionHistory, currentIndex |-> k - 1]
       ELSE IF k < n - 1 /\ UrlAt(sessionHistory, k + 1) = url
               /\ historyInfo.canGoForward
       THEN [sessionHistory |-> sessionHistory, currentIndex |-> k + 1]
       ELSE [sessionHistory |->
                Append(SubSeq(sessionHistory, 1, k + 1), createHistoryEntry(url, type)),
             currentIndex |-> k + 1]

\* C16: for every record reached and every update (url, event type, probe
\* result), the log and index the code produces, testing back, then forward,
\* then refresh inside the new-navigation branch, are those of the rule that
\* tests refresh first.
C16_ClassificationOrder ==
    \A t \in Tracked :
       \A url \in UpdateUrls, type \in EventTypes, h \in AllHistoryInfo :
          LET after == updateTabHistory(tabHistories, t, url, type, h, now)[t]
              ruled == RefreshFirst(tabHistories[t], url, type, h)
          IN /\ after.sessionHistory = ruled.sessionHistory
             /\ after.currentIndex = ruled.currentIndex

\* A record on which one URL matches the entry before and the entry after
\* the current one, reached by a back step.
C16_Witness ==
    \E t \in Tracked :
       LET sessionHistory == tabHistories[t].sessionHistory
           k == tabHistories[t].currentIndex
       IN /\ last = [op |-> "update", tab |-> t, kind |-> "back"]
          /\ k >= 1 /\ k < Len(sessionHistory) - 1
          /\ UrlAt(sessionHistory, k - 1) = UrlAt(sessionHistory, k + 1)

\* ------------------------------------------------------------------------
\* Persistence
\* ------------------------------------------------------------------------

StoredActive ==
    IF storage = NoData THEN EmptyMap ELSE MapFromEntries(storage.tabHistories)

StoredClosed ==
    IF storage = NoData THEN EmptyMap ELSE MapFromEntries(storage.closedTabHistories)

\* No handler is between its event and its write, and no write has failed.
Settled == pending = <<>> /\ written # "failed"

\* C19: whenever no operation is in progress and every write issued has
\* succeeded, the stored blob holds exactly the active and the closed
\* records of the tracker.
C19_PersistAfterMutation ==
    Settled => (StoredActive = tabHistories /\ StoredClosed = closedTabHistories)

\* The step is updateTabHistory run for some event of tab last'.tab.
IsUpdateStep == last'.op = "update" /\ last'.kind # "ignored"

\* C20: a write that fails leaves the stored blob as it was, no step writes
\* without calling saveToStorage, and the maps after an update, a closure or
\* a clear are what the handler makes of them whether its write fails or
\* not.
C20_Step ==
    /\ written' \in {"failed", "none"} => storage' = storage
    /\ written' = "saved" =>
          storage' = Snapshot(tabHistories', closedTabHistories', tabCreationTimes')
    /\ IsUpdateStep =>
          /\ written' \in {"saved", "failed"}
          /\ \E url \in ValidUrls, h \in AllHistoryInfo :
                /\ navigationKind(tabHistories, last'.tab, url, h) = last'.kind
                /\ tabHistories' =
                      updateTabHistory(tabHistories, last'.tab, url, "navigation", h, now)
          /\ UNCHANGED <<closedTabHistories, tabCreationTimes>>
    /\ \A t \in TabIds : IsCloseStep(t) =>
          /\ written' \in {"saved", "failed"}
          /\ DOMAIN tabHistories' = Tracked \ {t}
          /\ t \in Tracked =>
                /\ t \in DOMAIN closedTabHistories'
                /\ SameLog(closedTabHistories'[t], tabHistories[t])
          /\ t \notin Tracked => closedTabHistories' = closedTabHistories
    /\ (last'.op = "message" /\ last'.kind = "clearHistory") =>
          /\ written' \in {"saved", "failed"}
          /\ tabHistories' = EmptyMap /\ closedTabHistories' = EmptyMap
    /\ (last'.op = "message" /\ last'.kind = "clearClosedTabs") =>
          /\ written' \in {"saved", "failed"}
          /\ tabHistories' = tabHistories /\ closedTabHistories' = EmptyMap

C20_FailedWriteKeepsMemory == [][C20_Step]_vars

\* An update applied after an earlier write had succeeded, its own write
\* failing: the log has grown and the blob still holds the shorter log.
C20_Witness ==
    \E t \in Tracked :
       /\ last = [op |-> "update", tab |-> t, kind |-> "append"]
       /\ written = "failed"
       /\ t \in DOMAIN StoredActive
       /\ Len(StoredActive[t].sessionHistory) < Len(tabHistories[t].sessionHistory)

\* ------------------------------------------------------------------------
\* Handlers that wait
\* ------------------------------------------------------------------------

\* The step runs updateTabHistory for the waiting handler at position i.
Applies(i) ==
    /\ i \in 1..Len(pending)
    /\ pending[i].stage = "probe"
    /\ IsUpdateStep
    /\ last'.tab = pending[i].tab
    /\ pending' = RemoveAt(pending, i)

\* C17: the events of one tab are applied to its log in the order they
\* arrived: a step that applies an event applies the one that has waited
\* longest among the events of its tab.
C17_Step ==
    (\E i \in 1..Len(pending) : Applies(i)) =>
       \E i \in 1..Len(pending) :
          /\ Applies(i)
          /\ \A j \in 1..(i - 1) : pending[j].tab # pending[i].tab

C17_AppliedInArrivalOrder == [][C17_Step]_vars

\* C18: a tab whose tab-closed event has been handled has no record in the
\* active set, and no tab id is in the active and the closed set at once.
C18_Lifecycle ==
    /\ \A t \in TabIds : tabs[t] = "gone" => t \notin Tracked
    /\ Tracked \cap DOMAIN closedTabHistories = {}

\* ------------------------------------------------------------------------
\* Effects of one update
\* ------------------------------------------------------------------------

\* The record of tab t after updateTabHistory(t, url, type, h) runs now.
Updated(t, url, type, h) == updateTabHistory(tabHistories, t, url, type, h, now)[t]

\* The log cut after position k and extended by one entry for url.
CutAndAppend(sessionHistory, k, url, type) ==
    Append(SubSeq(sessionHistory, 1, k + 1), createHistoryEntry(url, type))

\* C21: an update processed with the defaults of a failed probe is applied
\* as a refresh when its url is the current entry's, and otherwise appends an
\* entry after the current one, also when the url is that of the entry before
\* or after the current one.
C21_FailedProbeNeverMoves ==
    \A t \in Tracked : \A url \in UpdateUrls, type \in EventTypes :
       LET tabHistory == tabHistories[t]
           k == tabHistory.currentIndex
           after == Updated(t, url, type, DefaultHistoryInfo)
       IN /\ DefaultHistoryInfo.historyLength = 1
          /\ IF UrlAt(tabHistory.sessionHistory, k) = url
             THEN SameLog(after, tabHistory)
             ELSE /\ after.sessionHistory =
                        CutAndAppend(tabHistory.sessionHistory, k, url, type)
                  /\ after.currentIndex = k + 1

\* A log whose newest entry repeats the URL of the entry two before it: the
\* update that appended it was not taken for a back navigation.
C21_Witness ==
    \E t \in Tracked :
       LET sessionHistory == tabHistories[t].sessionHistory
           k == tabHistories[t].currentIndex
       IN /\ last = [op |-> "update", tab |-> t, kind |-> "append"]
          /\ k >= 2
          /\ UrlAt(sessionHistory, k) = UrlAt(sessionHistory, k - 2)

\* C22: the first update for a tab with no active record creates a record
\* whose log is the one entry of type initial with the event's url, with
\* currentIndex 0 and the one-node tree, for every event type and probe
\* result.
C22_Bootstrapping ==
    \A t \in TabIds \ Tracked :
       \A url \in UpdateUrls, type \in EventTypes, h \in AllHistoryInfo :
          LET after == Updated(t, url, type, h)
          IN /\ after.sessionHistory = <<[url |-> url, type |-> "initial"]>>
             /\ after.currentIndex = 0
             /\ Len(after.tree) = 1
             /\ after.tree[1].isCurrent
             /\ after.tree[1].entry.url = url

C22_Witness ==
    \E t \in Tracked, u \in Tracked :
       /\ t # u
       /\ last = [op |-> "update", tab |-> t, kind |-> "initial"]
       /\ Len(tabHistories[t].sessionHistory) = 1
       /\ Len(tabHistories[u].sessionHistory) >= 2

\* C23: every step other than a start of the worker leaves the entries
\* 0..k of every record that stays in the active set as they were, k being
\* the record's currentIndex before the step; so entry 0 never changes.
C23_Step ==
    last'.op # "init" =>
       \A t \in Tracked \cap DOMAIN tabHistories' :
          LET k == tabHistories[t].currentIndex
          IN /\ Len(tabHistories'[t].sessionHistory) >= k + 1
             /\ SubSeq(tabHistories'[t].sessionHistory, 1, k + 1) =
                   SubSeq(tabHistories[t].sessionHistory, 1, k + 1)

C23_EntriesImmutable == [][C23_Step]_vars

C23_Witness ==
    \E t \in Tracked :
       /\ last = [op |-> "update", tab |-> t, kind |-> "truncate"]
       /\ tabHistories[t].currentIndex >= 2

\* C30: after an update of tab t with url u, whatever it was applied as, the
\* current entry of t's log has url u.
C30_CurrentEntryIsUrl ==
    \A t \in TabIds : \A url \in UpdateUrls, type \in EventTypes, h \in AllHistoryInfo :
       LET after == Updated(t, url, type, h)
       IN /\ after.currentIndex < Len(after.sessionHistory)
          /\ UrlAt(after.sessionHistory, after.currentIndex) = url

C30_Witness ==
    \E t \in Tracked :
       LET sessionHistory == tabHistories[t].sessionHistory
           k == tabHistories[t].currentIndex
       IN /\ last = [op |-> "update", tab |-> t, kind |-> "back"]
          /\ k >= 1
          /\ Len(sessionHistory) >= k + 2

\* ------------------------------------------------------------------------
\* Tabs do not share state
\* ------------------------------------------------------------------------

\* The active map with every record but tab t's taken out.
OnlyTab(histories, t) == [u \in DOMAIN histories \cap {t} |-> histories[u]]

SameRecordOf(u) ==
    /\ (u \in DOMAIN tabHistories') = (u \in DOMAIN tabHistories)
    /\ u \in DOMAIN tabHistories => tabHistories'[u] = tabHistories[u]
    /\ (u \in DOMAIN closedTabHistories') = (u \in DOMAIN closedTabHistories)
    /\ u \in DOMAIN closedTabHistories => closedTabHistories'[u] = closedTabHistories[u]

IsTabStep(t) ==
    /\ HandlerStep
    /\ last'.tab = t
    /\ \/ last'.op = "update" /\ last'.kind # "ignored"
       \/ last'.op = "close"

\* Taken alone: the record an update or a closure of t produces is the one
\* it produces when t's record is the only one there is.
C24_OwnRecordOnly ==
    \A t \in TabIds :
       /\ \A url \in UpdateUrls, type \in EventTypes, h \in AllHistoryInfo :
             Updated(t, url, type, h) =
                updateTabHistory(OnlyTab(tabHistories, t), t, url, type, h, now)[t]
       /\ t \in Tracked =>
             moveToClosed(closedTabHistories, t, tabHistories[t], now)[t] =
                moveToClosed(EmptyMap, t, tabHistories[t], now)[t]

C24_Step ==
    \A t \in TabIds : IsTabStep(t) => \A u \in TabIds \ {t} : SameRecordOf(u)

\* C24: an update or a closure of tab t leaves the active and the closed
\* record of every other tab as they were, and what it makes of t's record
\* depends on no other tab's record.
C24_CrossTabIndependence == []C24_OwnRecordOnly /\ [][C24_Step]_vars

C24_Witness ==
    /\ last = [op |-> "update", tab |-> 2, kind |-> "append"]
    /\ 1 \in Tracked
    /\ 2 \in Tracked
    /\ tabHistories[1].lastUpdated < tabHistories[2].lastUpdated

\* ------------------------------------------------------------------------
\* The request surface
\* ------------------------------------------------------------------------

KnownActions == {"getAllTabTrees", "clearHistory", "clearClosedTabs", "getStatus",
                 "refreshTabHistory", "debugInfo"}

IsMessageStep(action) ==
    /\ HandlerStep
    /\ last'.op = "message"
    /\ last'.kind = action

SameSets ==
    /\ tabHistories' = tabHistories
    /\ closedTabHistories' = closedTabHistories

\* C25: a request whose action is none of the six commands gets the one
\* response {success: false, error}, and the active and the closed set stay
\* as they were.
C25_Step ==
    \A action \in Actions \ KnownActions : IsMessageStep(action) =>
       /\ Len(response') = 1
       /\ DOMAIN response'[1] = {"success", "error"}
       /\ response'[1].success = FALSE
       /\ SameSets

C25_UnknownCommand == [][C25_Step]_vars

C25_Witness ==
    /\ last = [op |-> "message", tab |-> 0, kind |-> "bogus"]
    /\ response = <<[success |-> FALSE, error |-> "Unknown action"]>>
    /\ Tracked # {}
    /\ DOMAIN closedTabHistories # {}

\* Every entry of every log of map, each tagged with where it is.
EntriesIn(map, tag) ==
    {x \in {tag} \X (DOMAIN map) \X (1..MaxEntries) :
        x[3] <= Len(map[x[2]].sessionHistory)}

\* C26: getStatus answers once, with activeTabs the number of active
\* records, closedTabs the number of closed records, trackedTabs their sum
\* and totalSessionEntries the number of entries in all logs of both sets,
\* and changes neither the maps nor the store.
C26_Step ==
    IsMessageStep("getStatus") =>
       /\ Len(response') = 1
       /\ response'[1].success = TRUE
       /\ response'[1].activeTabs = Cardinality(DOMAIN tabHistories)
       /\ response'[1].closedTabs = Cardinality(DOMAIN closedTabHistories)
       /\ response'[1].trackedTabs =
             response'[1].activeTabs + response'[1].closedTabs
       /\ response'[1].totalSessionEntries =
             Cardinality(EntriesIn(tabHistories, "active")
                         \cup EntriesIn(closedTabHistories, "closed"))
       /\ SameSets
       /\ UNCHANGED <<tabCreationTimes, storage>>

C26_GetStatusCounts == [][C26_Step]_vars

C26_Witness ==
    /\ last = [op |-> "message", tab |-> 0, kind |-> "getStatus"]
    /\ Len(response) = 1
    /\ response[1].activeTabs >= 1
    /\ response[1].closedTabs >= 1
    /\ response[1].totalSessionEntries = MaxTotalEntries

\* The items of list made from the records of map, closed or not.
ItemsOf(list, map, isClosed) ==
    /\ Cardinality({i \in DOMAIN list : list[i].isClosed = isClosed}) =
          Cardinality(DOMAIN map)
    /\ \A t \in DOMAIN map :
          \E i \in DOMAIN list :
             /\ list[i].isClosed = isClosed
             /\ list[i].tabId = t
             /\ list[i].sessionHistory = map[t].sessionHistory
             /\ list[i].currentIndex = map[t].currentIndex
             /\ list[i].tree = map[t].tree
             /\ list[i].lastUpdated = map[t].lastUpdated
             /\ isClosed => /\ "closedAt" \in DOMAIN list[i]
                            /\ list[i].closedAt = map[t].closedAt

\* C27: the list getAllTabTrees returns has one item with isClosed = FALSE
\* for every active record and one with isClosed = TRUE and the record's
\* closedAt for every closed record, no other item, and of two consecutive
\* items the first has the lastUpdated that is not smaller.
C27_Step ==
    IsMessageStep("getAllTabTrees") =>
       /\ Len(response') = 1
       /\ response'[1].success = TRUE
       /\ LET tabTrees == response'[1].tabTrees
          IN /\ ItemsOf(tabTrees, tabHistories, FALSE)
             /\ ItemsOf(tabTrees, closedTabHistories, TRUE)
             /\ \A i \in 1..(Len(tabTrees) - 1) :
                   tabTrees[i].lastUpdated >= tabTrees[i + 1].lastUpdated

C27_AllTabTreesSorted == [][C27_Step]_vars

C27_Witness ==
    /\ last = [op |-> "message", tab |-> 0, kind |-> "getAllTabTrees"]
    /\ Len(response) = 1
    /\ Len(response[1].tabTrees) = 2
    /\ response[1].tabTrees[1].isClosed
    /\ ~response[1].tabTrees[2].isClosed
    /\ response[1].tabTrees[1].lastUpdated > response[1].tabTrees[2].lastUpdated

\* C28: refreshTabHistory for a tab with an active record answers once with
\* that tab's tree, sessionHistory and currentIndex, the tree being the
\* rebuild of the log and the log and the index being as they were; for a tab
\* with no active record, closed or never seen, it answers once with tree
\* null and changes no record.
C28_Step ==
    \A t \in TabIds :
       (IsMessageStep("refreshTabHistory") /\ last'.tab = t) =>
          /\ Len(response') = 1
          /\ response'[1].success = TRUE
          /\ closedTabHistories' = closedTabHistories
          /\ \A u \in TabIds \ {t} : SameRecordOf(u)
          /\ IF t \in Tracked
             THEN /\ t \in DOMAIN tabHistories'
                  /\ SameLog(tabHistories'[t], tabHistories[t])
                  /\ tabHistories'[t].tree =
                        buildTree(tabHistories[t].sessionHistory,
                                  tabHistories[t].currentIndex)
                  /\ response'[1].tree.tabId = t
                  /\ response'[1].tree.tree = tabHistories'[t].tree
                  /\ response'[1].tree.sessionHistory = tabHistories[t].sessionHistory
                  /\ response'[1].tree.currentIndex = tabHistories[t].currentIndex
             ELSE /\ response'[1].tree = "null"
                  /\ tabHistories' = tabHistories

C28_RefreshTabHistory == [][C28_Step]_vars

C28_Witness ==
    \E t \in Tracked :
       /\ last = [op |-> "message", tab |-> t, kind |-> "refreshTabHistory"]
       /\ Len(response) = 1
       /\ response[1].tree.currentIndex < Len(response[1].tree.sessionHistory) - 1
       /\ DOMAIN closedTabHistories # {}

\* ------------------------------------------------------------------------
\* Saving and loading
\* ------------------------------------------------------------------------

\* C29: what loadStoredData makes of the blob saveToStorage writes from the
\* maps of any reachable state: the active set has the same tab ids, logs and
\* positions and every tree is the rebuild of its log, the closed set is
\* the same, trees included, and so are the creation times.
C29_SaveLoadRoundTrip ==
    LET data == Snapshot(tabHistories, closedTabHistories, tabCreationTimes)
        loaded == loadedTabHistories(data)
    IN /\ DOMAIN loaded = DOMAIN tabHistories
       /\ \A t \in DOMAIN loaded :
             /\ SameLog(loaded[t], tabHistories[t])
             /\ loaded[t].tree = buildTree(tabHistories[t].sessionHistory,
                                           tabHistories[t].currentIndex)
       /\ MapFromEntries(data.closedTabHistories) = closedTabHistories
       /\ MapFromEntries(data.tabCreationTimes) = tabCreationTimes

C29_Witness ==
    /\ last.op = "init"
    /\ storage = Snapshot(tabHistories, closedTabHistories, tabCreationTimes)
    /\ DOMAIN closedTabHistories # {}
    /\ \E t \in Tracked : tabHistories[t].currentIndex <
                              Len(tabHistories[t].sessionHistory) - 1

\* ------------------------------------------------------------------------
\* Adjacent entries
\* ------------------------------------------------------------------------

NoAdjacentRepeat(sessionHistory) ==
    \A i \in 1..(Len(sessionHistory) - 1) :
       sessionHistory[i].url # sessionHistory[i + 1].url

\* C31: no log of an active record has two adjacent entries with the same
\* URL, and no update meets the refresh condition together with the back or
\* the forward condition.
C31_NoAdjacentRepeat ==
    \A t \in Tracked :
       /\ NoAdjacentRepeat(tabHistories[t].sessionHistory)
       /\ \A url \in UpdateUrls, h \in AllHistoryInfo :
             UrlAt(tabHistories[t].sessionHistory, tabHistories[t].currentIndex) = url
                => /\ ~detectBackNavigation(tabHistories, t, url, h)
                   /\ ~detectForwardNavigation(tabHistories, t, url, h)

C31_Witness ==
    \E t \in Tracked :
       LET sessionHistory == tabHistories[t].sessionHistory
       IN /\ last = [op |-> "update", tab |-> t, kind |-> "forward"]
          /\ Len(sessionHistory) = 3
          /\ tabHistories[t].currentIndex = 1
          /\ UrlAt(sessionHistory, 0) = UrlAt(sessionHistory, 2)

\* ------------------------------------------------------------------------
\* Shape of the rebuilt tree
\* ------------------------------------------------------------------------

\* The active records whose tree the builder has made of a non-empty log.
Built == {t \in Tracked : Len(tabHistories[t].sessionHistory) >= 1}

\* C32: a rebuilt tree has at most one node with isCurrent = TRUE, and a
\* node with isCurrent = TRUE has the URL of the entry at currentIndex.
C32_AtMostOneCurrent ==
    \A t \in Built :
       LET tabHistory == tabHistories[t]
           current == CurrentNodes(tabHistory.tree)
       IN /\ Cardinality(current) <= 1
          /\ \A k \in current :
                tabHistory.tree[k].entry.url =
                   UrlAt(tabHistory.sessionHistory, tabHistory.currentIndex)

\* The current entry was left by a revisit of the root: its node stays
\* current off the branch.
C32_Witness ==
    \E t \in Built :
       LET tabHistory == tabHistories[t]
       IN /\ last.op = "init"
          /\ Len(tabHistory.sessionHistory) = 3
          /\ tabHistory.currentIndex = 1
          /\ UrlAt(tabHistory.sessionHistory, 0) = UrlAt(tabHistory.sessionHistory, 2)
          /\ CurrentNodes(tabHistory.tree) = {2}

\* The nodes from the root down to node k, as positions in the tree.
RECURSIVE PathTo(_, _)
PathTo(tree, k) ==
    IF tree[k].parent = 0 THEN <<k>>
    ELSE Append(PathTo(tree, tree[k].parent), k)

\* C33: in a rebuilt tree the nodes on the path from the root to any node
\* have pairwise different URLs.
C33_NoRepeatOnPath ==
    \A t \in Built :
       LET tree == tabHistories[t].tree
       IN \A k \in DOMAIN tree :
             LET path == PathTo(tree, k)
             IN \A i, j \in DOMAIN path :
                   i # j => tree[path[i]].entry.url # tree[path[j]].entry.url

\* Two children of the root carry the same URL, each in a branch of its own.
C33_Witness ==
    \E t \in Built :
       LET tree == tabHistories[t].tree
       IN /\ last.op = "init"
          /\ Len(tree) = 3
          /\ tree[2].parent = 1
          /\ tree[3].parent = 1
          /\ tree[2].entry.url = tree[3].entry.url

\* C34: in a rebuilt tree the root is made of the first entry of the log,
\* the URLs of the nodes are the URLs of the entries, every node's entry is
\* an entry of the log, and there are at most as many nodes as entries, as
\* many exactly when no entry revisits a URL of the current branch.
C34_NodesFromEntries ==
    \A t \in Built :
       LET tree == tabHistories[t].tree
           sessionHistory == tabHistories[t].sessionHistory
       IN /\ Len(tree) >= 1
          /\ tree[1].entry = sessionHistory[1]
          /\ \A k \in DOMAIN tree : tree[k].parent = 0 <=> k = 1
          /\ {tree[k].entry.url : k \in DOMAIN tree} =
                {sessionHistory[i].url : i \in DOMAIN sessionHistory}
          /\ \A k \in DOMAIN tree :
                \E i \in DOMAIN sessionHistory : tree[k].entry = sessionHistory[i]
          /\ Len(tree) <= Len(sessionHistory)
          /\ Len(tree) = Len(sessionHistory) <=>
                \A i \in 0..(Len(sessionHistory) - 1) : ~isRevisit(sessionHistory, i)

\* Four entries, two of them revisits: two nodes.
C34_Witness ==
    \E t \in Built :
       /\ last.op = "init"
       /\ Len(tabHistories[t].sessionHistory) = 4
       /\ Len(tabHistories[t].tree) = 2

\* C35: in a rebuilt tree the root has level 0 and every other node has the
\* level of its parent plus one, which is its distance from the root.
C35_LevelIsDepth ==
    \A t \in Built :
       LET tree == tabHistories[t].tree
       IN \A k \in DOMAIN tree :
             /\ tree[k].level = Len(PathTo(tree, k)) - 1
             /\ IF k = 1 THEN tree[k].level = 0
                ELSE /\ tree[k].parent \in 1..(k - 1)
                     /\ tree[k].level = tree[tree[k].parent].level + 1

\* A node made after the branch of two nodes was cut back to the root.
C35_Witness ==
    \E t \in Built :
       LET tree == tabHistories[t].tree
       IN /\ last.op = "init"
          /\ Len(tabHistories[t].sessionHistory) = 4
          /\ Len(tree) = 3
          /\ tree[2].level = 1
          /\ tree[3].level = 1
          /\ tree[3].parent = 1
          /\ tree[3].entry.url # tree[2].entry.url

\* ------------------------------------------------------------------------
\* Back before forward
\* ------------------------------------------------------------------------

\* C36: when the entries before and after the current one both have the
\* update's URL and the probe reports canGoBack and canGoForward, the update
\* moves the position one entry back and leaves the log as it is.
C36_BackWinsOverForward ==
    \A t \in Tracked :
       LET sessionHistory == tabHistories[t].sessionHistory
           k == tabHistories[t].currentIndex
       IN (k > 0 /\ k < Len(sessionHistory) - 1) =>
            \A url \in UpdateUrls, type \in EventTypes, h \in AllHistoryInfo :
               (/\ UrlAt(sessionHistory, k - 1) = url
                /\ UrlAt(sessionHistory, k + 1) = url
                /\ h.canGoBack
                /\ h.canGoForward) =>
                  /\ Updated(t, url, type, h).currentIndex = k - 1
                  /\ Updated(t, url, type, h).sessionHistory = sessionHistory

\* The back step taken from between two entries with the update's URL.
C36_Witness ==
    \E t \in Tracked :
       LET sessionHistory == tabHistories[t].sessionHistory
           k == tabHistories[t].currentIndex
       IN /\ last = [op |-> "update", tab |-> t, kind |-> "back"]
          /\ Len(sessionHistory) >= k + 3
          /\ UrlAt(sessionHistory, k) = UrlAt(sessionHistory, k + 2)

\* ------------------------------------------------------------------------
\* No update is lost
\* ------------------------------------------------------------------------

IsWaiting(w) == \E i \in 1..Len(pending) : pending[i] = w

\* The last step applied an update of w's tab with w's URL.
Applied(w) ==
    /\ last.op = "update"
    /\ last.tab = w.tab
    /\ w.tab \in Tracked
    /\ UrlAt(tabHistories[w.tab].sessionHistory, tabHistories[w.tab].currentIndex) = w.url

\* A handler leaves the waiting ones only by going on to updateTabHistory,
\* or, while it awaits chrome.tabs.get, by ending there.
C37_NoDrop ==
    Len(pending') < Len(pending) =>
       \/ last'.op = "update" /\ last'.tab \in DOMAIN tabHistories'
       \/ last'.op = "tabs.get" /\ last'.kind = "ended"

\* C37: a tab-updated event with status complete and an http or https URL
\* is taken up, its handler is not dropped while it waits for the probe, and
\* whatever the probe returns the update is applied to the tab's log in the
\* end.
C37_UpdateEventuallyApplied ==
    /\ [][C37_NoDrop]_vars
    /\ \A t \in NavTabs, u \in TrackedUrls :
          IsWaiting(Waiting(t, u, "navigation", "probe"))
             ~> Applied(Waiting(t, u, "navigation", "probe"))

\* An update applied with the defaults of a failed probe, the tab being
\* gone, while another handler still waits.
C37_Witness ==
    \E t \in Tracked :
       /\ last.op = "update"
       /\ last.tab = t
       /\ tabs[t] = "gone"
       /\ Len(pending) >= 1
       /\ pending[1].stage = "probe"

\* ------------------------------------------------------------------------
\* One response for every request
\* ------------------------------------------------------------------------

\* C38: handleMessage calls sendResponse exactly once for every request,
\* whatever its action and its tabId, a refreshTabHistory request without
\* tabId or with tabId 0 included.
C38_ExactlyOneResponse ==
    last.op = "message" => Len(response) = 1

\* ------------------------------------------------------------------------
\* Discovery of the open tabs
\* ------------------------------------------------------------------------

\* initializeTabHistory called for a tab that has an active record, in any
\* state and with any URL, changes nothing.
C39_KeepsExisting ==
    \A t \in Tracked, url \in UpdateUrls :
       initializeTabHistory(tabHistories, t, url, now) = tabHistories

\* A start of the worker leaves every record it loaded as the load made it
\* and gives every other tab it tracks a record of one entry of type initial.
C39_Step ==
    last'.op = "init" =>
       \A t \in DOMAIN tabHistories' :
          IF t \in DOMAIN StoredActive
          THEN tabHistories'[t] = loadedTabHistories(storage)[t]
          ELSE /\ tabs[t] = "open"
               /\ Len(tabHistories'[t].sessionHistory) = 1
               /\ tabHistories'[t].sessionHistory[1].type = "initial"
               /\ tabHistories'[t].currentIndex = 0
               /\ tabHistories'[t].tree =
                     <<createTreeNode(tabHistories'[t].sessionHistory[1], 0, TRUE)>>

\* C39: the discovery of the open tabs at start-up leaves the
\* sessionHistory, currentIndex and tree of a tab that has an active record
\* as they are, and creates a record of one entry only for a tab that has
\* none.
C39_DiscoveryKeepsLogs == []C39_KeepsExisting /\ [][C39_Step]_vars

\* After a start: an open tab kept the two entries the store held for it,
\* and another tab, unknown to the store, got its first record.
C39_Witness ==
    /\ last.op = "init"
    /\ \E t \in Tracked :
          /\ tabs[t] = "open"
          /\ t \in DOMAIN StoredActive
          /\ Len(tabHistories[t].sessionHistory) = 2
          /\ \E u \in Tracked \ {t} : u \notin DOMAIN StoredActive

====
